---- MODULE Spec2Model ----
(***************************************************************************)
(* Order execution and accounting engine of paper.fun:                     *)
(* packages/trading/src/orders.ts placeOrder, run by concurrent callers    *)
(* against the Postgres tables of prisma/migrations (balances, positions,  *)
(* orders, trades) under READ COMMITTED row locking.                       *)
(*                                                                         *)
(* Amounts are fixed-point integers counted in the smallest unit a         *)
(* DECIMAL column stores ("quanta").  Values computed in flight by         *)
(* decimal.js (cost, fee, proceeds) are finer than a column and are kept   *)
(* exactly as records [w, r] meaning w + r/DEN quanta; they are rounded    *)
(* when written to a column.                                               *)
(***************************************************************************)
EXTENDS Integers, FiniteSets, Sequences, TLC

\* ------------------------------------------------------------------ bounds
\* Number of placeOrder calls one behaviour may start.
MaxCalls == 2

\* ------------------------------------------------------- program constants
\* Quanta per whole unit of a DECIMAL(20,8) column.  The column keeps 8
\* fractional digits; the model keeps 2, with the same rounding rule.
SCALE == 100
\* FEE_RATE = 0.1% = 1 / FEE_DIV.
FEE_DIV == 1000
\* Smallest order size accepted (0.01), in quanta.
MIN_POSITION_SIZE == 1
\* Denominator of the in-flight decimals: a product of two column values
\* times FEE_RATE has SCALE * FEE_DIV parts per quantum.
DEN == SCALE * FEE_DIV

Users == {1, 2}
Assets == {"USDC", "SOL"}
Procs == {1, 2}
Sides == {"buy", "sell", "hold"}
\* Sizes a caller may request, in quanta: 0 (invalid), 0.01, 1.00, 2.00.
Sizes == {0, 1, 100, 200}
\* Execution prices the oracle may supply, in quanta: 0 (invalid), 10.00, 15.00.
Prices == {0, 1000, 1500}
\* Quote balances a new account may hold when the behaviour starts: 40.04.
StartQuotes == {4004}

ORDER_STATUS == [PENDING |-> "pending", FILLED |-> "filled", REJECTED |-> "rejected"]

\* ---------------------------------------------------------------- decimals
\* A column value as an in-flight decimal.
Dec(i) == [w |-> i, r |-> 0]

\* Decimal.plus / Decimal.minus on in-flight decimals (0 <= r < DEN).
DecPlus(a, b) ==
    LET rr == a.r + b.r
    IN  [w |-> a.w + b.w + (rr \div DEN), r |-> rr % DEN]

DecMinus(a, b) ==
    LET rr == a.r - b.r
    IN  IF rr >= 0 THEN [w |-> a.w - b.w, r |-> rr]
                   ELSE [w |-> a.w - b.w - 1, r |-> rr + DEN]

\* Decimal.lt
DecLt(a, b) == a.w < b.w \/ (a.w = b.w /\ a.r < b.r)

\* Decimal.times of two column values: p * s / SCALE quanta.
DecTimes(p, s) ==
    LET n == p * s
    IN  [w |-> n \div SCALE, r |-> (n % SCALE) * FEE_DIV]

\* What a DECIMAL(20,8) column keeps of a written decimal: Postgres rounds
\* numeric input to the column scale, ties away from zero.
ToColumn(d) ==
    IF d.w >= 0
    THEN (IF 2 * d.r >= DEN THEN d.w + 1 ELSE d.w)
    ELSE (IF 2 * d.r > DEN THEN d.w + 1 ELSE d.w)

\* Decimal.dividedBy of two integers followed by the write to a column:
\* n / d rounded to the nearest quantum, ties away from zero (d # 0).
DivToColumn(n, d) ==
    LET an == IF n < 0 THEN -n ELSE n
        ad == IF d < 0 THEN -d ELSE d
        q  == (2 * an + ad) \div (2 * ad)
    IN  IF (n < 0) = (d < 0) THEN q ELSE -q

\* fees.ts calculateFee: price * size * FEE_RATE.
calculateFee(price, size) ==
    LET n == price * size
    IN  [w |-> n \div DEN, r |-> n % DEN]

\* ------------------------------------------------------------------- state
VARIABLES
    balances,     \* committed balances rows, by <<userId, asset>>
    positions,    \* committed positions rows, by <<userId, asset>>
    orders,       \* committed orders rows
    trades,       \* committed trades rows
    nextOrderId,  \* orders.id SERIAL sequence (not transactional)
    nextTradeId,  \* trades.id SERIAL sequence (not transactional)
    pc,           \* per caller: position inside placeOrder
    req,          \* per caller: the arguments of its placeOrder call
    loc,          \* per caller: the locals of the transaction callback
    wr,           \* per caller: the uncommitted writes of its transaction
    held,         \* per caller: assets whose balances row it has locked
    result,       \* per caller: how its last call ended
    returned,     \* per caller: the value its last call returned
    calls,        \* number of calls started
    hist,         \* history: what the properties need to remember
    hpc,          \* per caller: position inside placeOrderHandler
    response,     \* per caller: the HTTP response its handler sent last
    portfolio,    \* per caller: the portfolio its handler read
    events,       \* the events published so far, oldest first
    fetched,      \* the response of the last GET /orders request
    users,        \* committed users rows
    nextUserId,   \* users.id SERIAL sequence
    login,        \* per caller: its createOrGetUser call
    redis,        \* the price store: the value of each key
    setter,       \* per price worker: its setPrice call
    snapshot      \* what the last reader of a price found

\* The state of the controller around placeOrder, and of the auth package.
handlerVars == <<hpc, response, portfolio, events, fetched>>
authVars == <<users, nextUserId, login>>
\* The state of the price store and of the callers of setPrice.
priceVars == <<redis, setter, snapshot>>

vars == <<balances, positions, orders, trades, nextOrderId, nextTradeId,
          pc, req, loc, wr, held, result, returned, calls, hist,
          hpc, response, portfolio, events, fetched, users, nextUserId,
          login, redis, setter, snapshot>>

Keys == Users \X Assets

NoBal == [exists |-> FALSE, available |-> 0, locked |-> 0]
NoPos == [exists |-> FALSE, size |-> 0, avgEntryPrice |-> 0]
NoOrder == [id |-> 0, userId |-> 0, side |-> "", type |-> "", baseAsset |-> "",
            quoteAsset |-> "", requestedSize |-> 0, priceAtOrderTime |-> 0,
            status |-> "", feesApplied |-> 0]
NoTrade == [id |-> 0, orderId |-> 0, userId |-> 0, side |-> "",
            executedPrice |-> 0, executedSize |-> 0, fee |-> 0]

NoReq == [user |-> 1, side |-> "", base |-> "", quote |-> "", size |-> 0,
          sizeSub |-> 0, price |-> 0, priceFinite |-> TRUE]
NoLoc == [quoteAvailable |-> 0, quoteLocked |-> 0, baseAvailable |-> 0,
          baseLocked |-> 0, posSize |-> 0, posAvg |-> 0, orderId |-> 0]
NoRet == [orderId |-> 0, executedSize |-> 0, executedPrice |-> 0,
          feesApplied |-> [w |-> 0, r |-> 0], status |-> ""]
NoWr == [bal |-> [a \in Assets |-> [dirty |-> FALSE, row |-> NoBal]],
         pos |-> [dirty |-> FALSE, row |-> NoPos],
         order |-> [dirty |-> FALSE, row |-> NoOrder],
         trade |-> [dirty |-> FALSE, row |-> NoTrade]]

\* Positions of a caller inside the db.$transaction callback.
InTx == {"lockQuote", "lockBase", "createBase", "createOrder", "createTrade",
         "update1", "update2", "findPosition", "createPosition",
         "updatePosition", "commit"}

\* -------------------------------------------------------------- validation
\* The requested size of request r as a decimal: r.size quanta and
\* r.sizeSub parts of 1/DEN quantum (a size finer than a column value).
RequestedSize(r) == [w |-> r.size, r |-> r.sizeSub]

\* validation.ts validateOrderInput(side, type, baseAsset, quoteAsset, size).
validateOrderInput(side, type, baseAsset, quoteAsset, requestedSize) ==
    /\ side \in {"buy", "sell"}
    /\ type = "market"
    /\ baseAsset # quoteAsset
    /\ DecLt(Dec(0), requestedSize)
    /\ ~DecLt(requestedSize, Dec(MIN_POSITION_SIZE))

\* orders.ts 51: price.lte(0).  Decimal.lte is false for Infinity.
PriceLteZero(r) == r.priceFinite /\ r.price <= 0

\* orders.ts 55-56: cost and fee of a request.
Cost(r) == DecTimes(r.size, r.price)

\* The fee of one whole unit at the price, whatever the size.
FeePerUnit(r) == calculateFee(r.price, SCALE)

Fee(r) == calculateFee(r.price, r.size)

\* lte in place of lt: a balance equal to cost + fee is rejected too.
InsufficientQuoteLte(quoteAvailable, r) ==
    ~DecLt(DecPlus(Cost(r), Fee(r)), Dec(quoteAvailable))

\* orders.ts 114-115: BUY is rejected when quoteAvailable < cost + fee.
InsufficientQuote(quoteAvailable, r) ==
    DecLt(Dec(quoteAvailable), DecPlus(Cost(r), Fee(r)))

\* orders.ts 124: SELL is rejected when baseAvailable < size.
InsufficientBase(baseAvailable, r) == baseAvailable < r.size

\* orders.ts 111-129: the error thrown by the validation, or "ok".
ValidateBalance(r, quoteAvailable, baseAvailable) ==
    IF r.side = "buy"
    THEN (IF InsufficientQuote(quoteAvailable, r) THEN "insufficient_balance" ELSE "ok")
    ELSE (IF InsufficientBase(baseAvailable, r) THEN "insufficient_to_sell" ELSE "ok")

\* The quote balance written with the fee left out of both formulas.
NewQuoteAvailableNoFee(r, quoteAvailable) ==
    IF r.side = "buy"
    THEN ToColumn(DecMinus(Dec(quoteAvailable), Cost(r)))
    ELSE ToColumn(DecPlus(Dec(quoteAvailable), DecTimes(r.price, r.size)))

\* A sell credited with price * size, the fee left out.
NewQuoteAvailableSellGross(r, quoteAvailable) ==
    IF r.side = "buy"
    THEN ToColumn(DecMinus(DecMinus(Dec(quoteAvailable), Cost(r)), Fee(r)))
    ELSE ToColumn(DecPlus(Dec(quoteAvailable), DecTimes(r.price, r.size)))

\* orders.ts 161 and 195-196: the quote balance written by a buy / a sell.
NewQuoteAvailable(r, quoteAvailable) ==
    IF r.side = "buy"
    THEN ToColumn(DecMinus(DecMinus(Dec(quoteAvailable), Cost(r)), Fee(r)))
    ELSE ToColumn(DecPlus(Dec(quoteAvailable), DecMinus(DecTimes(r.price, r.size), Fee(r))))

\* A base balance that a sell leaves as it was.
NewBaseAvailableBuysOnly(r, baseAvailable) ==
    IF r.side = "buy" THEN baseAvailable + r.size ELSE baseAvailable

\* orders.ts 172 and 184: the base balance written by a buy / a sell.
NewBaseAvailable(r, baseAvailable) ==
    IF r.side = "buy" THEN baseAvailable + r.size ELSE baseAvailable - r.size

\* A position size that a sell leaves as it was.
NewSizeBuysOnly(r, posSize) ==
    IF r.side = "buy" THEN posSize + r.size ELSE posSize

\* orders.ts 233-243: the position size and average entry price written.
NewSize(r, posSize) ==
    IF r.side = "buy" THEN posSize + r.size ELSE posSize - r.size

\* A buy that averages the two prices without their sizes.
NewAvgUnweighted(r, posSize, posAvg) ==
    IF r.side = "buy"
    THEN (IF posSize = 0
          THEN r.price
          ELSE DivToColumn(posAvg + r.price, 2))
    ELSE (IF posSize - r.size = 0 THEN 0 ELSE posAvg)

\* A sell that moves the average to the execution price.
NewAvgSellReprices(r, posSize, posAvg) ==
    IF r.side = "buy"
    THEN (IF posSize = 0
          THEN r.price
          ELSE DivToColumn(posSize * posAvg + r.price * r.size, posSize + r.size))
    ELSE (IF posSize - r.size = 0 THEN 0 ELSE r.price)

NewAvg(r, posSize, posAvg) ==
    IF r.side = "buy"
    THEN (IF posSize = 0
          THEN r.price
          ELSE DivToColumn(posSize * posAvg + r.price * r.size, posSize + r.size))
    ELSE (IF posSize - r.size = 0 THEN 0 ELSE posAvg)

\* orders.ts 238: dividedBy(newSize) has no finite value when newSize is 0,
\* and the positions.update that writes it fails.
AvgUndefined(r, posSize) ==
    r.side = "buy" /\ posSize # 0 /\ posSize + r.size = 0

\* ------------------------------------------------------------- row locking
\* A plain SELECT in place of SELECT ... FOR UPDATE: it never waits.
LockedByOtherPlainSelect(t, u, a) == FALSE

\* A lock on the whole balances table in place of the row lock: the read
\* waits while any other open transaction holds a lock on this asset.
LockedByOtherAnyUser(t, u, a) ==
    \E o \in Procs \ {t} :
        /\ pc[o] \in InTx
        /\ a \in held[o]
        /\ balances[<<u, a>>].exists

\* SELECT ... FOR UPDATE waits while another open transaction holds the lock
\* of the committed row.
LockedByOther(t, u, a) ==
    \E o \in Procs \ {t} :
        /\ pc[o] \in InTx
        /\ req[o].user = u
        /\ a \in held[o]
        /\ balances[<<u, a>>].exists

\* The quote row read without FOR UPDATE: the read never waits.
QuoteRowNeverLocked(t) == FALSE

\* orders.ts 68-73: the quote row is locked by another transaction.
QuoteRowLocked(t) == LockedByOther(t, req[t].user, req[t].quote)

\* orders.ts 84-89: the base row is locked by another transaction.
BaseRowLocked(t) == LockedByOther(t, req[t].user, req[t].base)

\* An INSERT waits while another open transaction has inserted the same
\* (userId, asset) and not yet committed (balances_userId_asset_key).
InsertedByOther(t, u, a) ==
    \E o \in Procs \ {t} :
        /\ pc[o] \in InTx
        /\ req[o].user = u
        /\ wr[o].bal[a].dirty
        /\ ~balances[<<u, a>>].exists

\* orders.ts 94-103: the insert of the base row waits for another transaction.
BaseInsertBlocked(t) == InsertedByOther(t, req[t].user, req[t].base)

\* t waits for a lock that o holds.
WaitsFor(t, o) ==
    /\ t # o
    /\ pc[o] \in InTx
    /\ req[o].user = req[t].user
    /\ \/ /\ pc[t] = "lockQuote"
          /\ balances[<<req[t].user, req[t].quote>>].exists
          /\ req[t].quote \in held[o]
       \/ /\ pc[t] = "lockBase"
          /\ balances[<<req[t].user, req[t].base>>].exists
          /\ req[t].base \in held[o]
       \/ /\ pc[t] = "createBase"
          /\ ~balances[<<req[t].user, req[t].base>>].exists
          /\ wr[o].bal[req[t].base].dirty

RECURSIVE WaitReach(_, _)
WaitReach(S, n) ==
    IF n = 0 THEN S
    ELSE WaitReach(S \cup {o \in Procs : \E s \in S : WaitsFor(s, o)}, n - 1)

\* t is on a cycle of the waits-for graph.
InWaitCycle(t) ==
    t \in WaitReach({o \in Procs : WaitsFor(t, o)}, Cardinality(Procs))


\* -------------------------------------------------------------------- rows
\* An orders row created with status PENDING, to be filled later.
OrderRowPending(r, id) ==
    [id |-> id, userId |-> r.user, side |-> r.side, type |-> "market",
     baseAsset |-> r.base, quoteAsset |-> r.quote, requestedSize |-> r.size,
     priceAtOrderTime |-> r.price, status |-> ORDER_STATUS.PENDING,
     feesApplied |-> ToColumn(Fee(r))]

\* orders.ts 132-144: the orders row placeOrder creates.
OrderRow(r, id) ==
    [id |-> id, userId |-> r.user, side |-> r.side, type |-> "market",
     baseAsset |-> r.base, quoteAsset |-> r.quote, requestedSize |-> r.size,
     priceAtOrderTime |-> r.price, status |-> ORDER_STATUS.FILLED,
     feesApplied |-> ToColumn(Fee(r))]

\* A trades row that takes its own id for the id of its order.
TradeRowOwnId(r, id, orderId) ==
    [id |-> id, orderId |-> id, userId |-> r.user, side |-> r.side,
     executedPrice |-> r.price, executedSize |-> r.size,
     fee |-> ToColumn(Fee(r))]

\* orders.ts 147-156: the trades row placeOrder creates.
TradeRow(r, id, orderId) ==
    [id |-> id, orderId |-> orderId, userId |-> r.user, side |-> r.side,
     executedPrice |-> r.price, executedSize |-> r.size,
     fee |-> ToColumn(Fee(r))]

\* ------------------------------------------------------ commit and rollback
\* A commit that deletes the position row when the position is closed.
AfterCommitDropsClosed(t) ==
    [balances |-> [k \in Keys |->
                     IF k[1] = req[t].user /\ wr[t].bal[k[2]].dirty
                     THEN wr[t].bal[k[2]].row ELSE balances[k]],
     positions |-> [k \in Keys |->
                     IF k = <<req[t].user, req[t].base>> /\ wr[t].pos.dirty
                     THEN (IF wr[t].pos.row.size = 0 THEN NoPos ELSE wr[t].pos.row)
                     ELSE positions[k]],
     orders |-> IF wr[t].order.dirty THEN orders \cup {wr[t].order.row} ELSE orders,
     trades |-> IF wr[t].trade.dirty THEN trades \cup {wr[t].trade.row} ELSE trades]

\* A commit that leaves the position out: the position row was written
\* outside the transaction and is not there yet.
AfterCommitWithoutPosition(t) ==
    [balances |-> [k \in Keys |->
                     IF k[1] = req[t].user /\ wr[t].bal[k[2]].dirty
                     THEN wr[t].bal[k[2]].row ELSE balances[k]],
     positions |-> positions,
     orders |-> IF wr[t].order.dirty THEN orders \cup {wr[t].order.row} ELSE orders,
     trades |-> IF wr[t].trade.dirty THEN trades \cup {wr[t].trade.row} ELSE trades]

\* A commit whose order replaces the order the user placed before, and
\* whose trade replaces the trade of that order.
AfterCommitReplacesOrder(t) ==
    [balances |-> [k \in Keys |->
                     IF k[1] = req[t].user /\ wr[t].bal[k[2]].dirty
                     THEN wr[t].bal[k[2]].row ELSE balances[k]],
     positions |-> [k \in Keys |->
                     IF k = <<req[t].user, req[t].base>> /\ wr[t].pos.dirty
                     THEN wr[t].pos.row ELSE positions[k]],
     orders |-> IF wr[t].order.dirty
                THEN {o \in orders : o.userId # req[t].user} \cup {wr[t].order.row}
                ELSE orders,
     trades |-> IF wr[t].trade.dirty
                THEN {x \in trades : x.userId # req[t].user} \cup {wr[t].trade.row}
                ELSE trades]

\* The committed tables after the transaction of t commits: every write of
\* the callback becomes visible at once.
AfterCommit(t) ==
    [balances |-> [k \in Keys |->
                     IF k[1] = req[t].user /\ wr[t].bal[k[2]].dirty
                     THEN wr[t].bal[k[2]].row ELSE balances[k]],
     positions |-> [k \in Keys |->
                     IF k = <<req[t].user, req[t].base>> /\ wr[t].pos.dirty
                     THEN wr[t].pos.row ELSE positions[k]],
     orders |-> IF wr[t].order.dirty THEN orders \cup {wr[t].order.row} ELSE orders,
     trades |-> IF wr[t].trade.dirty THEN trades \cup {wr[t].trade.row} ELSE trades]

\* A rollback after balance updates made through db instead of tx: they stay.
AfterRollbackKeepsBalances(t) ==
    [balances |-> [k \in Keys |->
                     IF k[1] = req[t].user /\ wr[t].bal[k[2]].dirty
                     THEN wr[t].bal[k[2]].row ELSE balances[k]],
     positions |-> positions, orders |-> orders, trades |-> trades]

\* A rollback after an order created through db instead of tx: it stays.
AfterRollbackKeepsOrder(t) ==
    [balances |-> balances, positions |-> positions,
     orders |-> IF wr[t].order.dirty THEN orders \cup {wr[t].order.row} ELSE orders,
     trades |-> trades]

\* A rollback after the missing base row was created through db instead of
\* tx: the new row stays.
AfterRollbackKeepsCreated(t) ==
    [balances |-> [k \in Keys |->
                     IF /\ k = <<req[t].user, req[t].base>>
                        /\ pc[t] = "createBase"
                        /\ ~balances[k].exists
                     THEN [exists |-> TRUE, available |-> 0, locked |-> 0]
                     ELSE balances[k]],
     positions |-> positions, orders |-> orders, trades |-> trades]

\* The committed tables after the transaction of t rolls back: every write
\* was made through tx, so none stays.
AfterRollback(t) ==
    [balances |-> balances, positions |-> positions,
     orders |-> orders, trades |-> trades]

\* ------------------------------------------------- placeOrder run alone
\* placeOrder (orders.ts 37-265) executed from start to end with no other
\* transaction running, on the tables db, drawing the ids oid and tid.
SeqPlace(db, r, oid, tid) ==
    LET qk == <<r.user, r.quote>>
        bk == <<r.user, r.base>>
        qa == db.balances[qk].available
        ba == IF db.balances[bk].exists THEN db.balances[bk].available ELSE 0
        bl == IF db.balances[bk].exists THEN db.balances[bk].locked ELSE 0
        ps == IF db.positions[bk].exists THEN db.positions[bk].size ELSE 0
        pa == IF db.positions[bk].exists THEN db.positions[bk].avgEntryPrice ELSE 0
        rejected(e) == [db |-> db, outcome |-> e]
    IN  IF ~validateOrderInput(r.side, "market", r.base, r.quote, RequestedSize(r))
        THEN rejected("validation_error")
        ELSE IF PriceLteZero(r) THEN rejected("price_error")
        ELSE IF ~db.balances[qk].exists THEN rejected("no_quote_balance")
        ELSE IF ValidateBalance(r, qa, ba) # "ok"
        THEN rejected(ValidateBalance(r, qa, ba))
        ELSE IF ~r.priceFinite \/ AvgUndefined(r, ps) THEN rejected("storage_error")
        ELSE [db |->
                [balances |->
                   [k \in Keys |->
                      IF k = qk
                      THEN [exists |-> TRUE,
                            available |-> NewQuoteAvailable(r, qa),
                            locked |-> db.balances[qk].locked]
                      ELSE IF k = bk
                      THEN [exists |-> TRUE,
                            available |-> NewBaseAvailable(r, ba),
                            locked |-> bl]
                      ELSE db.balances[k]],
                 positions |->
                   [k \in Keys |->
                      IF k = bk
                      THEN [exists |-> TRUE, size |-> NewSize(r, ps),
                            avgEntryPrice |-> NewAvg(r, ps, pa)]
                      ELSE db.positions[k]],
                 orders |-> db.orders \cup {OrderRow(r, oid)},
                 trades |-> db.trades \cup {TradeRow(r, tid, oid)}],
              outcome |-> ORDER_STATUS.FILLED]

\* ----------------------------------------------------------------- history
\* Ways a call ends that placeOrder decides itself; the others are forced on
\* it from outside (timeout, deadlock victim, lost insert race).
OwnOutcomes ==
    {"filled", "validation_error", "price_error", "no_quote_balance",
     "insufficient_balance", "insufficient_to_sell", "storage_error"}

\* How far the callback of a transaction got: nothing written yet; some of
\* the base balance row, the order, the trade and the balance updates
\* written (orders.ts 94-206); both balances written and the position not
\* yet (208-253); everything written (255-261).
Stage(p) ==
    IF p \in {"lockQuote", "lockBase", "createBase"} THEN "reads"
    ELSE IF p \in {"createOrder", "createTrade", "update1", "update2"}
    THEN "rows"
    ELSE IF p \in {"findPosition", "createPosition", "updatePosition"}
    THEN "balances"
    ELSE "position"

\* The committed quote balance, base balance and position size a transaction
\* found just before it committed; all 0 for a call that did not commit.
NoBefore == [quote |-> 0, base |-> 0, size |-> 0]

NoSums == [n |-> 0, sumS |-> 0, sumSP |-> 0, pure |-> FALSE, exact |-> FALSE]

\* Buys accumulated by a position since it was last empty: their number, the
\* sum of the sizes, the sum of size * price, whether only buys happened since (pure),
\* and whether every average computed since was a column value (exact).
SumsAfter(s, r, posSize, posAvg) ==
    IF r.side = "sell" THEN [s EXCEPT !.pure = FALSE]
    ELSE IF posSize = 0
    THEN [n |-> 1, sumS |-> r.size, sumSP |-> r.size * r.price,
          pure |-> TRUE, exact |-> TRUE]
    ELSE [n |-> s.n + 1,
          sumS |-> s.sumS + r.size,
          sumSP |-> s.sumSP + r.size * r.price,
          pure |-> s.pure,
          exact |-> s.exact /\
                    (posSize * posAvg + r.price * r.size) % (posSize + r.size) = 0]

\* The history after a call by t ended with outcome e: the same call is
\* replayed alone on the replayed tables hist.seq.
HistAfter(t, r, e, oid, tid) ==
    LET run == SeqPlace(hist.seq, r, oid, tid)
        bk == <<r.user, r.base>>
        p == positions[bk]
    IN  [hist EXCEPT
           !.aborted[t] = IF e = "aborted" THEN Stage(pc[t]) ELSE "none",
           !.seq = IF e \in OwnOutcomes THEN run.db ELSE @,
           !.seqResult[t] = IF e \in OwnOutcomes THEN run.outcome ELSE e,
           !.sums[bk] = IF e = "filled"
                        THEN SumsAfter(@, r, IF p.exists THEN p.size ELSE 0,
                                       IF p.exists THEN p.avgEntryPrice ELSE 0)
                        ELSE @]

\* The callback threw, or the transaction was ended from outside: rollback,
\* locks released, the call ends with error e.
Fail(t, e) ==
    /\ balances' = AfterRollback(t).balances
    /\ positions' = AfterRollback(t).positions
    /\ orders' = AfterRollback(t).orders
    /\ trades' = AfterRollback(t).trades
    /\ pc' = [pc EXCEPT ![t] = "done"]
    /\ result' = [result EXCEPT ![t] = e]
    /\ wr' = [wr EXCEPT ![t] = NoWr]
    /\ held' = [held EXCEPT ![t] = {}]
    /\ loc' = [loc EXCEPT ![t] = NoLoc]
    /\ hist' = HistAfter(t, req[t], e, 0, 0)
    /\ UNCHANGED <<returned, nextOrderId, nextTradeId, req, calls>>

\* ------------------------------------------------- controller and auth
\* No response sent: status 0.
NoResponse == [status |-> 0, code |-> "", orderId |-> 0]

\* No portfolio read.
NoPortfolio == [read |-> FALSE,
                balances |-> [a \in Assets |-> NoBal],
                positions |-> [a \in Assets |-> NoPos]]

\* No GET request answered: status 0.
NoFetched == [status |-> 0, orders |-> {}]

\* Symbols as callers of setPrice write them, and the symbol of the key each
\* is stored under (orders.ts 357: symbol.toUpperCase()).
Symbols == {"SOL", "sol", "ETH"}
toUpperCase == [s \in Symbols |-> IF s = "sol" THEN "SOL" ELSE s]
UpperSymbols == {toUpperCase[s] : s \in Symbols}

\* orders.ts 358-359: the two keys of a symbol, redisKeys.PRICE.tokenPrice
\* and the same with ":ts" appended.
priceKey(upperSymbol) == <<upperSymbol, "price">>
timestampKey(upperSymbol) == <<upperSymbol, "ts">>
RedisKeys == {priceKey(s) : s \in UpperSymbols} \cup
             {timestampKey(s) : s \in UpperSymbols}

\* A key that was never set; `by` is the number of the setPrice call that
\* wrote a value (history only, 0 for none).
NoValue == [value |-> "", by |-> 0]

\* Concurrent callers of setPrice (price workers), and the calls they make
\* in all.
Setters == {1, 2}
MaxSets == 3

\* No setPrice call made.
NoSetter == [pc |-> "idle", symbol |-> "SOL", price |-> "0", timestamp |-> "",
             call |-> 0, result |-> "none"]

\* No handler is running, nothing was published or fetched, and the price
\* store is empty.
HandlersIdle ==
    /\ hpc = [t \in Procs |-> "idle"]
    /\ response = [t \in Procs |-> NoResponse]
    /\ portfolio = [t \in Procs |-> NoPortfolio]
    /\ events = <<>>
    /\ fetched = NoFetched
    /\ redis = [k \in RedisKeys |-> NoValue]
    /\ setter = [w \in Setters |-> NoSetter]
    /\ snapshot = [price |-> NoValue, timestamp |-> NoValue]

\* Wallet addresses; user u logged in first with the wallet WalletOf[u].
Wallets == {"walletA", "walletB"}
WalletOf == [u \in Users |-> IF u = 1 THEN "walletA" ELSE "walletB"]

\* The users rows when every user of Users has logged in before.
ExistingUsers == {[id |-> u, walletAddress |-> WalletOf[u]] : u \in Users}

\* Concurrent callers of createOrGetUser, and the calls they make in all.
Logins == {1, 2, 3}
MaxLogins == 4

\* No createOrGetUser call made.
NoLogin == [pc |-> "idle", walletAddress |-> "", user |-> 0, result |-> "none"]

\* ----------------------------------------------------------- initial state
\* A new account: initPortfolio has created the USDC balance row only.
FreshDb(q) ==
    [balances |-> [k \in Keys |->
                     IF k[2] = "USDC"
                     THEN [exists |-> TRUE, available |-> q, locked |-> 0]
                     ELSE NoBal],
     positions |-> [k \in Keys |-> NoPos],
     orders |-> {},
     trades |-> {}]

\* The order user 1 placed before the behaviour starts, if any: buy 1 SOL
\* at 10.00 (order 1, trade 1).
FirstBuy == [user |-> 1, side |-> "buy", base |-> "SOL", quote |-> "USDC",
             size |-> 100, sizeSub |-> 0, price |-> 1000, priceFinite |-> TRUE]

Init ==
    /\ \E q \in StartQuotes : \E bought \in BOOLEAN :
         LET db == IF bought THEN SeqPlace(FreshDb(q), FirstBuy, 1, 1).db
                             ELSE FreshDb(q)
             n == IF bought THEN 2 ELSE 1
         IN  /\ balances = db.balances
             /\ positions = db.positions
             /\ orders = db.orders
             /\ trades = db.trades
             /\ nextOrderId = n
             /\ nextTradeId = n
             /\ hist = [aborted |-> [t \in Procs |-> "none"],
                        startAvail |-> [t \in Procs |-> 0],
                        startBase |-> [t \in Procs |-> 0],
                        inits |-> [u \in Users |-> 0],
                        orphaned |-> {},
                        before |-> [t \in Procs |-> NoBefore],
                        conc |-> [t \in Procs |-> {}],
                        seq |-> db,
                        seqResult |-> [t \in Procs |-> "none"],
                        sums |-> [k \in Keys |->
                                    IF bought /\ k = <<1, "SOL">>
                                    THEN SumsAfter(NoSums, FirstBuy, 0, 0)
                                    ELSE NoSums]]
    /\ pc = [t \in Procs |-> "idle"]
    /\ req = [t \in Procs |-> NoReq]
    /\ loc = [t \in Procs |-> NoLoc]
    /\ wr = [t \in Procs |-> NoWr]
    /\ held = [t \in Procs |-> {}]
    /\ result = [t \in Procs |-> "none"]
    /\ returned = [t \in Procs |-> NoRet]
    /\ calls = 0
    /\ HandlersIdle
    /\ users = ExistingUsers
    /\ nextUserId = Cardinality(Users) + 1
    /\ login = [c \in Logins |-> NoLogin]

\* A request for 1.00 SOL against USDC at 10.00, to be varied.
PlainRequest(u, side) ==
    [user |-> u, side |-> side, base |-> "SOL", quote |-> "USDC",
     size |-> 100, sizeSub |-> 0, price |-> 1000, priceFinite |-> TRUE]

\* The orders user 1 placed before a behaviour of SpecShort starts: buy 1.00
\* SOL at 30.00; sell 2.00 USDC for SOL at 15.00, which fills the SOL balance
\* past the SOL position; sell 2.00 SOL at 10.00, which the balance covers
\* and the position does not.
ShortOrders ==
    <<[PlainRequest(1, "buy") EXCEPT !.price = 3000],
      [PlainRequest(1, "sell") EXCEPT !.base = "USDC", !.quote = "SOL",
                                     !.size = 200, !.price = 1500],
      [PlainRequest(1, "sell") EXCEPT !.size = 200]>>

\* The tables after the first n orders of ShortOrders, each run alone.
RECURSIVE ShortDb(_, _)
ShortDb(q, n) ==
    IF n = 0 THEN FreshDb(q)
    ELSE SeqPlace(ShortDb(q, n - 1), ShortOrders[n], n, n).db

\* A quote balance too small for 1.00 SOL at 15.00 and just enough for 1.00
\* SOL at 10.00 with its fee: 10.01.
PoorQuotes == {1001}

\* As Init, the new accounts holding a quote balance of PoorQuotes: user 1
\* has spent all of it on FirstBuy, or nothing was bought yet.
InitPoor ==
    /\ \E q \in PoorQuotes : \E bought \in BOOLEAN :
         LET db == IF bought THEN SeqPlace(FreshDb(q), FirstBuy, 1, 1).db
                             ELSE FreshDb(q)
             n == IF bought THEN 2 ELSE 1
         IN  /\ balances = db.balances
             /\ positions = db.positions
             /\ orders = db.orders
             /\ trades = db.trades
             /\ nextOrderId = n
             /\ nextTradeId = n
             /\ hist = [aborted |-> [t \in Procs |-> "none"],
                        startAvail |-> [t \in Procs |-> 0],
                        startBase |-> [t \in Procs |-> 0],
                        inits |-> [u \in Users |-> 0],
                        orphaned |-> {},
                        before |-> [t \in Procs |-> NoBefore],
                        conc |-> [t \in Procs |-> {}],
                        seq |-> db,
                        seqResult |-> [t \in Procs |-> "none"],
                        sums |-> [k \in Keys |->
                                    IF bought /\ k = <<1, "SOL">>
                                    THEN SumsAfter(NoSums, FirstBuy, 0, 0)
                                    ELSE NoSums]]
    /\ pc = [t \in Procs |-> "idle"]
    /\ req = [t \in Procs |-> NoReq]
    /\ loc = [t \in Procs |-> NoLoc]
    /\ wr = [t \in Procs |-> NoWr]
    /\ held = [t \in Procs |-> {}]
    /\ result = [t \in Procs |-> "none"]
    /\ returned = [t \in Procs |-> NoRet]
    /\ calls = 0
    /\ HandlersIdle
    /\ users = ExistingUsers
    /\ nextUserId = Cardinality(Users) + 1
    /\ login = [c \in Logins |-> NoLogin]

\* The state after ShortOrders: user 1 holds a SOL position of -1.00 with
\* avgEntryPrice 30.00.
InitShort ==
    /\ \E q \in StartQuotes :
         LET db == ShortDb(q, Len(ShortOrders)) IN
         /\ balances = db.balances
         /\ positions = db.positions
         /\ orders = db.orders
         /\ trades = db.trades
         /\ hist = [aborted |-> [t \in Procs |-> "none"],
                    startAvail |-> [t \in Procs |-> 0],
                    startBase |-> [t \in Procs |-> 0],
                    inits |-> [u \in Users |-> 0],
                    orphaned |-> {},
                    before |-> [t \in Procs |-> NoBefore],
                    conc |-> [t \in Procs |-> {}],
                    seq |-> db,
                    seqResult |-> [t \in Procs |-> "none"],
                    sums |-> [k \in Keys |-> NoSums]]
    /\ nextOrderId = Len(ShortOrders) + 1
    /\ nextTradeId = Len(ShortOrders) + 1
    /\ pc = [t \in Procs |-> "idle"]
    /\ req = [t \in Procs |-> NoReq]
    /\ loc = [t \in Procs |-> NoLoc]
    /\ wr = [t \in Procs |-> NoWr]
    /\ held = [t \in Procs |-> {}]
    /\ result = [t \in Procs |-> "none"]
    /\ returned = [t \in Procs |-> NoRet]
    /\ calls = 0
    /\ HandlersIdle
    /\ users = ExistingUsers
    /\ nextUserId = Cardinality(Users) + 1
    /\ login = [c \in Logins |-> NoLogin]

\* The orders user 1 placed before a behaviour of SpecCredited starts: buy
\* 1.00 SOL at 10.00; sell it again; sell 0.10 USDC for SOL at 10.00, which
\* credits 1.00 SOL to the balance and nothing to the SOL position.
CreditedOrders ==
    <<PlainRequest(1, "buy"),
      PlainRequest(1, "sell"),
      [PlainRequest(1, "sell") EXCEPT !.base = "USDC", !.quote = "SOL",
                                     !.size = 10]>>

\* The tables after the first n orders of CreditedOrders, each run alone.
RECURSIVE CreditedDb(_, _)
CreditedDb(q, n) ==
    IF n = 0 THEN FreshDb(q)
    ELSE SeqPlace(CreditedDb(q, n - 1), CreditedOrders[n], n, n).db

\* The state after CreditedOrders: user 1 holds 1.00 SOL and a SOL position
\* of size 0.
InitCredited ==
    /\ \E q \in StartQuotes :
         LET db == CreditedDb(q, Len(CreditedOrders)) IN
         /\ balances = db.balances
         /\ positions = db.positions
         /\ orders = db.orders
         /\ trades = db.trades
         /\ hist = [aborted |-> [t \in Procs |-> "none"],
                    startAvail |-> [t \in Procs |-> 0],
                    startBase |-> [t \in Procs |-> 0],
                    inits |-> [u \in Users |-> 0],
                    orphaned |-> {},
                    before |-> [t \in Procs |-> NoBefore],
                    conc |-> [t \in Procs |-> {}],
                    seq |-> db,
                    seqResult |-> [t \in Procs |-> "none"],
                    sums |-> [k \in Keys |-> NoSums]]
    /\ nextOrderId = Len(CreditedOrders) + 1
    /\ nextTradeId = Len(CreditedOrders) + 1
    /\ pc = [t \in Procs |-> "idle"]
    /\ req = [t \in Procs |-> NoReq]
    /\ loc = [t \in Procs |-> NoLoc]
    /\ wr = [t \in Procs |-> NoWr]
    /\ held = [t \in Procs |-> {}]
    /\ result = [t \in Procs |-> "none"]
    /\ returned = [t \in Procs |-> NoRet]
    /\ calls = 0
    /\ HandlersIdle
    /\ users = ExistingUsers
    /\ nextUserId = Cardinality(Users) + 1
    /\ login = [c \in Logins |-> NoLogin]

\* ----------------------------------------------------------------- actions
\* The users a caller may act for.  Callers and users are interchangeable, so
\* caller 1 always acts for user 1 and caller 2 for either user.
UsersOf(t) == IF t = 1 THEN {1} ELSE Users

\* Requests that pass validateOrderInput and the price check.
GoodRequests(t) ==
    {r \in [user : UsersOf(t), side : {"buy", "sell"}, base : Assets,
            quote : Assets, size : Sizes \ {0}, sizeSub : {0},
            price : Prices \ {0}, priceFinite : {TRUE}] :
        r.base # r.quote}

\* Requests with one bad argument: the side; the size (0, and 0.001, a tenth
\* of MIN_POSITION_SIZE); the pair; the price (0, and Infinity).
BadRequests(t) ==
    UNION {{[PlainRequest(u, "buy") EXCEPT !.side = "hold"],
            [PlainRequest(u, "buy") EXCEPT !.size = 0],
            [PlainRequest(u, "sell") EXCEPT !.size = 0, !.sizeSub = DEN \div 10],
            [PlainRequest(u, "sell") EXCEPT !.base = "USDC"],
            [PlainRequest(u, "buy") EXCEPT !.price = 0],
            [PlainRequest(u, "sell") EXCEPT !.price = 0, !.priceFinite = FALSE]}
           : u \in UsersOf(t)}

Requests(t) == GoodRequests(t) \cup BadRequests(t)

\* The checks before the transaction without the floor on the size.
ValidateRequestNoFloor(r) ==
    IF r.side \notin {"buy", "sell"} \/ r.base = r.quote
    THEN "validation_error"
    ELSE IF PriceLteZero(r) THEN "price_error" ELSE "ok"

\* The checks before the transaction without the checks of side and pair.
ValidateRequestNoPair(r) ==
    IF ~validateOrderInput("buy", "market", "base", "quote", RequestedSize(r))
    THEN "validation_error"
    ELSE IF PriceLteZero(r) THEN "price_error" ELSE "ok"

\* orders.ts 45-53: the error thrown before the transaction is opened, or "ok".
ValidateRequest(r) ==
    IF ~validateOrderInput(r.side, "market", r.base, r.quote, RequestedSize(r))
    THEN "validation_error"
    ELSE IF PriceLteZero(r) THEN "price_error" ELSE "ok"

\* orders.ts 37-62: a caller (idle, or back from its last call) calls
\* placeOrder; validateOrderInput and the price check run before the
\* transaction is opened.  The history notes the committed quote balance at
\* the call (startAvail), the committed base balance (startBase) and the
\* callers with a transaction of the same user open at that moment (conc).
BeginWith(t, r) ==
    /\ pc[t] \in {"idle", "done"}
    /\ calls < MaxCalls
    /\ req' = [req EXCEPT ![t] = r]
    /\ IF ValidateRequest(r) # "ok"
       THEN /\ pc' = [pc EXCEPT ![t] = "done"]
            /\ result' = [result EXCEPT ![t] = ValidateRequest(r)]
            /\ hist' = [HistAfter(t, r, ValidateRequest(r), 0, 0)
                          EXCEPT !.startAvail[t] = 0,
                                 !.before[t] = NoBefore,
                                 !.startBase[t] = 0,
                                 !.conc = [o \in Procs |->
                                             IF o = t THEN {} ELSE @[o] \ {t}]]
       ELSE /\ pc' = [pc EXCEPT ![t] = "lockQuote"]
            /\ result' = [result EXCEPT ![t] = "none"]
            /\ hist' = [hist EXCEPT
                          !.aborted[t] = "none",
                          !.before[t] = NoBefore,
                          !.seqResult[t] = "none",
                          !.startAvail[t] =
                             balances[<<r.user, r.quote>>].available,
                          !.startBase[t] =
                             balances[<<r.user, r.base>>].available,
                          !.conc = [o \in Procs |->
                                      IF o = t
                                      THEN {x \in Procs \ {t} :
                                              /\ pc[x] \in InTx
                                              /\ req[x].user = r.user}
                                      ELSE @[o] \ {t}]]
    /\ calls' = calls + 1
    /\ loc' = [loc EXCEPT ![t] = NoLoc]
    /\ returned' = [returned EXCEPT ![t] = NoRet]
    /\ UNCHANGED <<balances, positions, orders, trades, nextOrderId, nextTradeId,
                   wr, held>>

\* placeOrder called directly with any request.
Begin(t) ==
    /\ pc[t] \in {"idle", "done"}
    /\ calls < MaxCalls
    /\ \E r \in Requests(t) : BeginWith(t, r)
    /\ UNCHANGED <<handlerVars, authVars, priceVars>>

\* A quote row that is never found missing: the callback goes on with the
\* balance 0 it read from no row.
QuoteRowMissingNever(t) == FALSE

\* orders.ts 75-77: the SELECT of the quote balance returned no row.
QuoteRowMissing(t) == ~balances[<<req[t].user, req[t].quote>>].exists

\* The quote row read by a plain SELECT: the row lock is not taken.
LockQuotePlainSelect(t) ==
    /\ pc[t] = "lockQuote"
    /\ LET k == <<req[t].user, req[t].quote>> IN
       IF QuoteRowMissing(t)
       THEN Fail(t, "no_quote_balance")
       ELSE /\ loc' = [loc EXCEPT ![t].quoteAvailable = balances[k].available,
                                  ![t].quoteLocked = balances[k].locked]
            /\ pc' = [pc EXCEPT ![t] = "lockBase"]
            /\ UNCHANGED <<returned, balances, positions, orders, trades, wr, result,
                           nextOrderId, nextTradeId, req, calls, hist, held>>
    /\ UNCHANGED <<handlerVars, authVars, priceVars>>

\* orders.ts 67-81: SELECT ... FOR UPDATE of the quote balance row.
LockQuote(t) ==
    /\ pc[t] = "lockQuote"
    /\ LET k == <<req[t].user, req[t].quote>> IN
       IF QuoteRowMissing(t)
       THEN Fail(t, "no_quote_balance")
       ELSE /\ ~QuoteRowLocked(t)
            /\ held' = [held EXCEPT ![t] = @ \cup {k[2]}]
            /\ loc' = [loc EXCEPT ![t].quoteAvailable = balances[k].available,
                                  ![t].quoteLocked = balances[k].locked]
            /\ pc' = [pc EXCEPT ![t] = "lockBase"]
            /\ UNCHANGED <<returned, balances, positions, orders, trades, wr, result,
                           nextOrderId, nextTradeId, req, calls, hist>>
    /\ UNCHANGED <<handlerVars, authVars, priceVars>>

\* orders.ts 111-129, run once baseAvailable is known: reject or go on.
Validated(t, baseAvailable, baseLocked, newHeld, newWr) ==
    LET e == ValidateBalance(req[t], loc[t].quoteAvailable, baseAvailable) IN
    IF e # "ok"
    THEN Fail(t, e)
    ELSE /\ loc' = [loc EXCEPT ![t].baseAvailable = baseAvailable,
                               ![t].baseLocked = baseLocked]
         /\ held' = [held EXCEPT ![t] = newHeld]
         /\ wr' = [wr EXCEPT ![t] = newWr]
         /\ pc' = [pc EXCEPT ![t] = "createOrder"]
         /\ UNCHANGED <<returned, balances, positions, orders, trades, result,
                        nextOrderId, nextTradeId, req, calls, hist>>

\* orders.ts 83-94, 106-129: SELECT ... FOR UPDATE of the base balance row;
\* when the row exists the validation follows.
LockBase(t) ==
    /\ pc[t] = "lockBase"
    /\ LET k == <<req[t].user, req[t].base>> IN
       IF ~balances[k].exists
       THEN /\ pc' = [pc EXCEPT ![t] = "createBase"]
            /\ UNCHANGED <<returned, balances, positions, orders, trades, wr, held,
                           result, loc, nextOrderId, nextTradeId, req, calls,
                           hist>>
       ELSE /\ ~BaseRowLocked(t)
            /\ Validated(t, balances[k].available, balances[k].locked,
                         held[t] \cup {k[2]}, wr[t])
    /\ UNCHANGED <<handlerVars, authVars, priceVars>>

\* orders.ts 94-105, 111-129: the base balance row is created with 0 / 0;
\* the validation follows.
CreateBase(t) ==
    /\ pc[t] = "createBase"
    /\ LET k == <<req[t].user, req[t].base>> IN
       /\ ~BaseInsertBlocked(t)
       /\ IF balances[k].exists
          THEN Fail(t, "unique_violation")
          ELSE Validated(t, 0, 0, held[t] \cup {k[2]},
                         [wr[t] EXCEPT !.bal[k[2]] =
                            [dirty |-> TRUE,
                             row |-> [exists |-> TRUE, available |-> 0, locked |-> 0]]])
    /\ UNCHANGED <<handlerVars, authVars, priceVars>>

\* orders.ts 131-144: tx.orders.create with status FILLED.
CreateOrder(t) ==
    /\ pc[t] = "createOrder"
    /\ req[t].priceFinite
    /\ wr' = [wr EXCEPT ![t].order =
                [dirty |-> TRUE, row |-> OrderRow(req[t], nextOrderId)]]
    /\ loc' = [loc EXCEPT ![t].orderId = nextOrderId]
    /\ nextOrderId' = nextOrderId + 1
    /\ pc' = [pc EXCEPT ![t] = "createTrade"]
    /\ UNCHANGED <<returned, balances, positions, orders, trades, nextTradeId, req, held,
                   result, calls, hist>>
    /\ UNCHANGED <<handlerVars, authVars, priceVars>>

\* orders.ts 131-144 with a price that is not finite: priceAtOrderTime
\* "Infinity" is no value of a DECIMAL(20,8) column, tx.orders.create throws.
CreateOrderFails(t) ==
    /\ pc[t] = "createOrder"
    /\ ~req[t].priceFinite
    /\ Fail(t, "storage_error")
    /\ UNCHANGED <<handlerVars, authVars, priceVars>>

\* orders.ts 146-156: tx.trades.create.
CreateTrade(t) ==
    /\ pc[t] = "createTrade"
    /\ wr' = [wr EXCEPT ![t].trade =
                [dirty |-> TRUE,
                 row |-> TradeRow(req[t], nextTradeId, loc[t].orderId)]]
    /\ nextTradeId' = nextTradeId + 1
    /\ pc' = [pc EXCEPT ![t] = "update1"]
    /\ UNCHANGED <<returned, balances, positions, orders, trades, nextOrderId, req, loc,
                   held, result, calls, hist>>
    /\ UNCHANGED <<handlerVars, authVars, priceVars>>

\* The row a tx.balances.update writes: available as computed, locked as read.
QuoteWrite(t) ==
    [dirty |-> TRUE,
     row |-> [exists |-> TRUE,
              available |-> NewQuoteAvailable(req[t], loc[t].quoteAvailable),
              locked |-> loc[t].quoteLocked]]

\* A base row written with the size of the order as its locked amount.
BaseWriteLocksSize(t) ==
    [dirty |-> TRUE,
     row |-> [exists |-> TRUE,
              available |-> NewBaseAvailable(req[t], loc[t].baseAvailable),
              locked |-> req[t].size]]

BaseWrite(t) ==
    [dirty |-> TRUE,
     row |-> [exists |-> TRUE,
              available |-> NewBaseAvailable(req[t], loc[t].baseAvailable),
              locked |-> loc[t].baseLocked]]

\* orders.ts 159-170 (buy: quote first) and 183-193 (sell: base first).
Update1(t) ==
    /\ pc[t] = "update1"
    /\ wr' = IF req[t].side = "buy"
             THEN [wr EXCEPT ![t].bal[req[t].quote] = QuoteWrite(t)]
             ELSE [wr EXCEPT ![t].bal[req[t].base] = BaseWrite(t)]
    /\ pc' = [pc EXCEPT ![t] = "update2"]
    /\ UNCHANGED <<returned, balances, positions, orders, trades, nextOrderId, nextTradeId,
                   req, loc, held, result, calls, hist>>
    /\ UNCHANGED <<handlerVars, authVars, priceVars>>

\* orders.ts 172-181 (buy: base second) and 195-205 (sell: quote second).
Update2(t) ==
    /\ pc[t] = "update2"
    /\ wr' = IF req[t].side = "buy"
             THEN [wr EXCEPT ![t].bal[req[t].base] = BaseWrite(t)]
             ELSE [wr EXCEPT ![t].bal[req[t].quote] = QuoteWrite(t)]
    /\ pc' = [pc EXCEPT ![t] = "findPosition"]
    /\ UNCHANGED <<returned, balances, positions, orders, trades, nextOrderId, nextTradeId,
                   req, loc, held, result, calls, hist>>
    /\ UNCHANGED <<handlerVars, authVars, priceVars>>

\* orders.ts 208-215: tx.positions.findUnique (a plain read of the committed
\* row; the transaction has not written the position yet).
FindPosition(t) ==
    /\ pc[t] = "findPosition"
    /\ LET p == positions[<<req[t].user, req[t].base>>] IN
       IF p.exists
       THEN /\ loc' = [loc EXCEPT ![t].posSize = p.size,
                                  ![t].posAvg = p.avgEntryPrice]
            /\ pc' = [pc EXCEPT ![t] = "updatePosition"]
       ELSE /\ pc' = [pc EXCEPT ![t] = "createPosition"]
            /\ UNCHANGED loc
    /\ UNCHANGED <<returned, balances, positions, orders, trades, nextOrderId, nextTradeId,
                   req, wr, held, result, calls, hist>>
    /\ UNCHANGED <<handlerVars, authVars, priceVars>>

\* orders.ts 215-228: tx.positions.create with size 0, avgEntryPrice 0.
CreatePosition(t) ==
    /\ pc[t] = "createPosition"
    /\ IF positions[<<req[t].user, req[t].base>>].exists
       THEN Fail(t, "unique_violation")
       ELSE /\ wr' = [wr EXCEPT ![t].pos =
                        [dirty |-> TRUE,
                         row |-> [exists |-> TRUE, size |-> 0, avgEntryPrice |-> 0]]]
            /\ loc' = [loc EXCEPT ![t].posSize = 0, ![t].posAvg = 0]
            /\ pc' = [pc EXCEPT ![t] = "updatePosition"]
            /\ UNCHANGED <<returned, balances, positions, orders, trades, held, result,
                           nextOrderId, nextTradeId, req, calls, hist>>
    /\ UNCHANGED <<handlerVars, authVars, priceVars>>

\* orders.ts 227-253: the new size and average are computed and written.
UpdatePosition(t) ==
    /\ pc[t] = "updatePosition"
    /\ IF AvgUndefined(req[t], loc[t].posSize)
       THEN Fail(t, "storage_error")
       ELSE /\ wr' = [wr EXCEPT ![t].pos =
                        [dirty |-> TRUE,
                         row |-> [exists |-> TRUE,
                                  size |-> NewSize(req[t], loc[t].posSize),
                                  avgEntryPrice |->
                                     NewAvg(req[t], loc[t].posSize, loc[t].posAvg)]]]
            /\ pc' = [pc EXCEPT ![t] = "commit"]
            /\ UNCHANGED <<returned, balances, positions, orders, trades, held, result,
                           loc, nextOrderId, nextTradeId, req, calls, hist>>
    /\ UNCHANGED <<handlerVars, authVars, priceVars>>

\* A return value that takes the newest order id for the id of its order.
ReturnValueLastOrder(t) ==
    [orderId |-> nextOrderId - 1,
     executedSize |-> req[t].size,
     executedPrice |-> req[t].price,
     feesApplied |-> Fee(req[t]),
     status |-> ORDER_STATUS.FILLED]

\* orders.ts 255-261: the value the callback returns: the id of the order it
\* created, and size, price and fee as computed in flight (not as stored).
ReturnValue(t) ==
    [orderId |-> wr[t].order.row.id,
     executedSize |-> req[t].size,
     executedPrice |-> req[t].price,
     feesApplied |-> Fee(req[t]),
     status |-> ORDER_STATUS.FILLED]

\* orders.ts 255-264: the callback returns, the transaction commits and the
\* result is returned with status FILLED.
Commit(t) ==
    /\ pc[t] = "commit"
    /\ balances' = AfterCommit(t).balances
    /\ positions' = AfterCommit(t).positions
    /\ orders' = AfterCommit(t).orders
    /\ trades' = AfterCommit(t).trades
    /\ pc' = [pc EXCEPT ![t] = "done"]
    /\ result' = [result EXCEPT ![t] = ORDER_STATUS.FILLED]
    /\ returned' = [returned EXCEPT ![t] = ReturnValue(t)]
    /\ wr' = [wr EXCEPT ![t] = NoWr]
    /\ held' = [held EXCEPT ![t] = {}]
    /\ loc' = [loc EXCEPT ![t] = NoLoc]
    /\ hist' = [HistAfter(t, req[t], ORDER_STATUS.FILLED,
                          wr[t].order.row.id, wr[t].trade.row.id)
                  EXCEPT !.before[t] =
                     [quote |-> balances[<<req[t].user, req[t].quote>>].available,
                      base |-> balances[<<req[t].user, req[t].base>>].available,
                      size |-> positions[<<req[t].user, req[t].base>>].size]]
    /\ UNCHANGED <<nextOrderId, nextTradeId, req, calls>>
    /\ UNCHANGED <<handlerVars, authVars, priceVars>>

\* orders.ts 62: db.$transaction ends the transaction from outside the
\* callback (its timeout expires, the connection fails): rollback.
Abort(t) ==
    /\ pc[t] \in InTx
    /\ Fail(t, "aborted")
    /\ UNCHANGED <<handlerVars, authVars, priceVars>>

\* Postgres ends one transaction of a lock-wait cycle with a deadlock error.
DeadlockAbort(t) ==
    /\ pc[t] \in InTx
    /\ InWaitCycle(t)
    /\ Fail(t, "deadlock")
    /\ UNCHANGED <<handlerVars, authVars, priceVars>>

Next ==
    \E t \in Procs :
        \/ Begin(t)
        \/ LockQuote(t)
        \/ LockBase(t)
        \/ CreateBase(t)
        \/ CreateOrder(t)
        \/ CreateOrderFails(t)
        \/ CreateTrade(t)
        \/ Update1(t)
        \/ Update2(t)
        \/ FindPosition(t)
        \/ CreatePosition(t)
        \/ UpdatePosition(t)
        \/ Commit(t)
        \/ Abort(t)
        \/ DeadlockAbort(t)

Spec == Init /\ [][Next]_vars

\* The same callers, the accounts starting with a quote balance of PoorQuotes.
SpecPoor == InitPoor /\ [][Next]_vars

\* The same callers, starting after ShortOrders.
SpecShort == InitShort /\ [][Next]_vars

\* The same callers, starting after CreditedOrders.
SpecCredited == InitCredited /\ [][Next]_vars

\* -------------------------------------------------------------- POST /orders
\* The prices getPrice returns for the base asset; NoPrice stands for no
\* price in the store, or one too old: getPrice throws.
FeedPrices == {1500}
NoPrice == 0

\* The bodies sent to POST /orders for the authenticated user: side,
\* baseAsset, quoteAsset and requestedSize, and one body without a side.
Bodies(t) ==
    {[PlainRequest(u, s) EXCEPT !.size = n, !.base = p[1], !.quote = p[2]] :
        u \in UsersOf(t), s \in {"buy", "sell", ""}, n \in {100, 200},
        p \in {<<"SOL", "USDC">>, <<"USDC", "SOL">>}}

\* part_011 97-104: a required field is missing.
MissingFields(body) ==
    body.side = "" \/ body.base = "" \/ body.quote = "" \/ body.size = 0

\* The phrases the catch block looks for that the message of error e holds
\* (orders.ts 52, 76, 116-120, 125-127; the messages of getPrice).
ErrorMessage(e) ==
    IF e = "price_unavailable" THEN {"Price not available"}
    ELSE IF e = "price_stale" THEN {"stale"}
    ELSE IF e \in {"insufficient_balance", "insufficient_to_sell"}
    THEN {"Insufficient"}
    ELSE {}

\* part_011 157-181: the response the catch block sends for a message.
ErrorResponse(message) ==
    IF "Price not available" \in message \/ "stale" \in message
    THEN [status |-> 503, code |-> "PRICE_UNAVAILABLE", orderId |-> 0]
    ELSE IF "Insufficient" \in message
    THEN [status |-> 400, code |-> "INSUFFICIENT_BALANCE", orderId |-> 0]
    ELSE [status |-> 400, code |-> "", orderId |-> 0]

\* What the handler leaves alone when it only answers.
HandlerFrame ==
    UNCHANGED <<balances, positions, orders, trades, nextOrderId, nextTradeId,
                pc, req, loc, wr, held, result, returned, hist, fetched>>

\* part_011 92-119: the handler reads the body, fetches the price of the
\* base asset and calls placeOrder; a missing field is answered with 400 and
\* a missing or stale price with 503, both before placeOrder is called.
ReceiveOrder(t) ==
    /\ hpc[t] = "idle"
    /\ pc[t] \in {"idle", "done"}
    /\ calls < MaxCalls
    /\ \E body \in Bodies(t) : \E price \in FeedPrices \cup {NoPrice} :
         IF MissingFields(body)
         THEN /\ response' = [response EXCEPT ![t] =
                                [status |-> 400, code |-> "", orderId |-> 0]]
              /\ calls' = calls + 1
              /\ HandlerFrame
              /\ UNCHANGED <<hpc, portfolio, events>>
         ELSE IF price = NoPrice
         THEN /\ response' = [response EXCEPT ![t] =
                                ErrorResponse(ErrorMessage("price_unavailable"))]
              /\ calls' = calls + 1
              /\ HandlerFrame
              /\ UNCHANGED <<hpc, portfolio, events>>
         ELSE /\ BeginWith(t, [body EXCEPT !.price = price])
              /\ hpc' = [hpc EXCEPT ![t] = "placeOrder"]
              /\ response' = [response EXCEPT ![t] = NoResponse]
              /\ UNCHANGED <<portfolio, events, fetched>>
    /\ UNCHANGED <<authVars, priceVars>>

\* A catch block that takes the order back: it deletes the order and the
\* trade the call committed.
AfterCatchTakesBack(t) ==
    [balances |-> balances, positions |-> positions,
     orders |-> {o \in orders : o.id # returned[t].orderId},
     trades |-> {x \in trades : x.orderId # returned[t].orderId}]

\* part_011 157-181: the committed tables after the catch block ran: it
\* sends a response and writes nothing.
AfterCatch(t) ==
    [balances |-> balances, positions |-> positions,
     orders |-> orders, trades |-> trades]

\* part_011 157-181: the catch block answers the error with message
\* `message`; the request is over.
Catch(t, message) ==
    /\ balances' = AfterCatch(t).balances
    /\ positions' = AfterCatch(t).positions
    /\ orders' = AfterCatch(t).orders
    /\ trades' = AfterCatch(t).trades
    /\ response' = [response EXCEPT ![t] = ErrorResponse(message)]
    /\ hpc' = [hpc EXCEPT ![t] = "idle"]
    /\ portfolio' = [portfolio EXCEPT ![t] = NoPortfolio]
    /\ UNCHANGED <<nextOrderId, nextTradeId, pc, req, loc, wr, held, result,
                   returned, calls, hist, events, fetched>>

\* part_011 112-119, 157-181: placeOrder threw.
PlaceOrderThrows(t) ==
    /\ hpc[t] = "placeOrder"
    /\ pc[t] = "done"
    /\ result[t] # ORDER_STATUS.FILLED
    /\ Catch(t, ErrorMessage(result[t]))
    /\ UNCHANGED <<authVars, priceVars>>

\* part_011 122-131: the event of a filled order.
OrderFilledEvent(t) ==
    [type |-> "order_filled", userId |-> req[t].user,
     orderId |-> returned[t].orderId,
     balances |-> NoPortfolio.balances, positions |-> NoPortfolio.positions]

\* The order-filled event published from inside the transaction, once the
\* order is written and before the commit.
PublishOrderFilledInTx(t) ==
    /\ hpc[t] = "placeOrder"
    /\ pc[t] = "commit"
    /\ events' = Append(events, [OrderFilledEvent(t) EXCEPT
                                   !.orderId = wr[t].order.row.id])
    /\ hpc' = [hpc EXCEPT ![t] = "getPortfolio"]
    /\ HandlerFrame
    /\ UNCHANGED <<calls, response, portfolio, authVars, priceVars>>

\* part_011 112-131: placeOrder returned; the order-filled event is
\* published, or publishing throws (the message broker is not reachable).
PublishOrderFilled(t) ==
    /\ hpc[t] = "placeOrder"
    /\ pc[t] = "done"
    /\ result[t] = ORDER_STATUS.FILLED
    /\ \E published \in BOOLEAN :
         IF published
         THEN /\ events' = Append(events, OrderFilledEvent(t))
              /\ hpc' = [hpc EXCEPT ![t] = "getPortfolio"]
              /\ HandlerFrame
              /\ UNCHANGED <<calls, response, portfolio>>
         ELSE Catch(t, {})
    /\ UNCHANGED <<authVars, priceVars>>

\* part_011 134: getPortfolio reads the committed balances and positions of
\* the user.
GetPortfolio(t) ==
    /\ hpc[t] = "getPortfolio"
    /\ portfolio' = [portfolio EXCEPT ![t] =
                       [read |-> TRUE,
                        balances |-> [a \in Assets |-> balances[<<req[t].user, a>>]],
                        positions |-> [a \in Assets |-> positions[<<req[t].user, a>>]]]]
    /\ hpc' = [hpc EXCEPT ![t] = "publishPortfolio"]
    /\ HandlerFrame
    /\ UNCHANGED <<calls, response, events, authVars, priceVars>>

\* part_011 135-147: the event of a portfolio update.
PortfolioEvent(t) ==
    [type |-> "portfolio_update", userId |-> req[t].user, orderId |-> 0,
     balances |-> portfolio[t].balances, positions |-> portfolio[t].positions]

\* part_011 135-156: the portfolio event is published and 201 is sent with
\* the result of placeOrder, or publishing throws.
PublishPortfolioUpdate(t) ==
    /\ hpc[t] = "publishPortfolio"
    /\ \E published \in BOOLEAN :
         IF published
         THEN /\ events' = Append(events, PortfolioEvent(t))
              /\ response' = [response EXCEPT ![t] =
                                [status |-> 201, code |-> "",
                                 orderId |-> returned[t].orderId]]
              /\ hpc' = [hpc EXCEPT ![t] = "idle"]
              /\ portfolio' = [portfolio EXCEPT ![t] = NoPortfolio]
              /\ HandlerFrame
              /\ UNCHANGED calls
         ELSE Catch(t, {})
    /\ UNCHANGED <<authVars, priceVars>>

\* Requests arrive at POST /orders only; placeOrder runs as in Next.
NextHandler ==
    \E t \in Procs :
        \/ ReceiveOrder(t)
        \/ LockQuote(t)
        \/ LockBase(t)
        \/ CreateBase(t)
        \/ CreateOrder(t)
        \/ CreateTrade(t)
        \/ Update1(t)
        \/ Update2(t)
        \/ FindPosition(t)
        \/ CreatePosition(t)
        \/ UpdatePosition(t)
        \/ Commit(t)
        \/ Abort(t)
        \/ DeadlockAbort(t)
        \/ PlaceOrderThrows(t)
        \/ PublishOrderFilled(t)
        \/ GetPortfolio(t)
        \/ PublishPortfolioUpdate(t)

\* orders.ts 269-276: getOrder is one findUnique on the orders table: the
\* row with this id, or none.
getOrder(orderId) == {o \in orders : o.id = orderId}

\* orders.ts 281-290: getUserOrders is one findMany on the orders table: the
\* rows of the user. The rows carry no createdAt here, so the result is the
\* set of the rows and not their list.
getUserOrders(userId) == {o \in orders : o.userId = userId}

\* part_011 188-207: GET /orders/:orderId answers 404 when there is no such
\* order and 200 with the row otherwise; it writes nothing.
getOrderHandler ==
    /\ \E orderId \in 1..nextOrderId :
         fetched' = IF getOrder(orderId) = {}
                    THEN [status |-> 404, orders |-> {}]
                    ELSE [status |-> 200, orders |-> getOrder(orderId)]
    /\ UNCHANGED <<balances, positions, orders, trades, nextOrderId, nextTradeId,
                   pc, req, loc, wr, held, result, returned, calls, hist,
                   hpc, response, portfolio, events, authVars, priceVars>>

\* part_011 223-258: GET /orders answers 200 with the orders of the
\* authenticated user, an empty list included (findMany never returns
\* null, so the 404 branch is not taken); it writes nothing.
getUserOrdersHandler ==
    /\ \E userId \in Users :
         fetched' = [status |-> 200, orders |-> getUserOrders(userId)]
    /\ UNCHANGED <<balances, positions, orders, trades, nextOrderId, nextTradeId,
                   pc, req, loc, wr, held, result, returned, calls, hist,
                   hpc, response, portfolio, events, authVars, priceVars>>

\* The three routes of the orders router, requests arriving at any time.
NextOrders ==
    \/ NextHandler
    \/ getOrderHandler
    \/ getUserOrdersHandler

SpecOrders == Init /\ [][NextOrders]_vars

SpecHandler == Init /\ [][NextHandler]_vars

\* ---------------------------------------------------------- createOrGetUser
\* An insert in place of the upsert: a row is created whether or not the
\* wallet has one.
UpsertUsersInsertsAlways(us, w, id) ==
    us \cup {[id |-> id, walletAddress |-> w]}

\* nonce.ts 30-34: db.users.upsert on the unique walletAddress (INSERT ... ON
\* CONFLICT DO UPDATE, one statement): the users rows afterwards; a new row
\* gets the id `id`.
UpsertUsers(us, w, id) ==
    IF \E u \in us : u.walletAddress = w
    THEN us
    ELSE us \cup {[id |-> id, walletAddress |-> w]}

\* The id of a users row of wallet w.
UserOf(us, w) == (CHOOSE u \in us : u.walletAddress = w).id

\* A findFirst without the where clause: any balance row of any user counts.
ExistingBalancesOfAnyone(u) == \E k \in Keys : balances[k].exists

\* nonce.ts 37-39: db.balances.findFirst({where: {userId}}).
ExistingBalances(u) == \E a \in Assets : balances[<<u, a>>].exists

\* What createOrGetUser leaves alone.
AuthFrame ==
    UNCHANGED <<positions, orders, trades, nextOrderId, nextTradeId, pc, req,
                loc, wr, held, result, returned, handlerVars, priceVars>>

\* nonce.ts 27-34: createOrGetUser is called with a wallet address and
\* upserts the users row.
Upsert(c) ==
    /\ login[c].pc \in {"idle", "done"}
    /\ calls < MaxLogins
    /\ \E w \in Wallets :
         LET us == UpsertUsers(users, w, nextUserId) IN
         /\ users' = us
         /\ nextUserId' = IF us = users THEN nextUserId ELSE nextUserId + 1
         /\ login' = [login EXCEPT ![c] =
                        [pc |-> "findFirst", walletAddress |-> w,
                         user |-> UserOf(us, w), result |-> "none"]]
    /\ calls' = calls + 1
    /\ AuthFrame
    /\ UNCHANGED <<balances, hist>>

\* nonce.ts 36-44: the portfolio check; with a balance row the user is
\* returned, without one initPortfolio is called.
FindFirst(c) ==
    /\ login[c].pc = "findFirst"
    /\ login' = IF ExistingBalances(login[c].user)
                THEN [login EXCEPT ![c].pc = "done", ![c].result = "ok"]
                ELSE [login EXCEPT ![c].pc = "initPortfolio"]
    /\ AuthFrame
    /\ UNCHANGED <<balances, hist, users, nextUserId, calls>>

\* part_016 347-351: pg_advisory_xact_lock(userId) is held by another
\* transaction of initPortfolio for the same user.
AdvisoryLockHeld(c, u) ==
    \E o \in Logins \ {c} :
        login[o].pc \in {"initCheck", "initCreate"} /\ login[o].user = u

\* nonce.ts 41, part_016 347-351: initPortfolio opens a transaction and
\* takes the advisory lock of the user, waiting while another holds it.
InitLock(c) ==
    /\ login[c].pc = "initPortfolio"
    /\ ~AdvisoryLockHeld(c, login[c].user)
    /\ login' = [login EXCEPT ![c].pc = "initCheck"]
    /\ AuthFrame
    /\ UNCHANGED <<balances, hist, users, nextUserId, calls>>

\* initPortfolio under the lock: with balance rows there is nothing to do,
\* the transaction ends and createOrGetUser returns the user.
InitCheck(c) ==
    /\ login[c].pc = "initCheck"
    /\ login' = IF ExistingBalances(login[c].user)
                THEN [login EXCEPT ![c].pc = "done", ![c].result = "ok"]
                ELSE [login EXCEPT ![c].pc = "initCreate"]
    /\ AuthFrame
    /\ UNCHANGED <<balances, hist, users, nextUserId, calls>>

\* initPortfolio under the lock: the balance rows of a new account are
\* created and the transaction commits; a row that exists already is a
\* unique violation (balances_userId_asset_key) and createOrGetUser throws.
InitCreate(c) ==
    /\ login[c].pc = "initCreate"
    /\ LET u == login[c].user IN
       IF ExistingBalances(u)
       THEN /\ login' = [login EXCEPT ![c].pc = "done",
                                      ![c].result = "unique_violation"]
            /\ UNCHANGED <<balances, hist>>
       ELSE /\ \E q \in StartQuotes :
                 balances' = [k \in Keys |->
                                IF k[1] = u /\ FreshDb(q).balances[k].exists
                                THEN FreshDb(q).balances[k]
                                ELSE balances[k]]
            /\ hist' = [hist EXCEPT !.inits[u] = @ + 1]
            /\ login' = [login EXCEPT ![c].pc = "done", ![c].result = "ok"]
    /\ AuthFrame
    /\ UNCHANGED <<users, nextUserId, calls>>

\* nonce.ts 45-48: a query after the upsert throws (the connection is lost,
\* the transaction of initPortfolio fails and rolls back): createOrGetUser
\* throws "Auth: Could not get/create user".  The history notes the users
\* left without a balance row by a failed call (orphaned).
LoginFails(c) ==
    /\ login[c].pc \in {"findFirst", "initPortfolio", "initCheck", "initCreate"}
    /\ login' = [login EXCEPT ![c].pc = "done", ![c].result = "error"]
    /\ hist' = [hist EXCEPT
                  !.orphaned = IF ExistingBalances(login[c].user)
                               THEN @ ELSE @ \cup {login[c].user}]
    /\ AuthFrame
    /\ UNCHANGED <<balances, users, nextUserId, calls>>

\* No user has logged in yet: the tables are empty.
InitAuth ==
    /\ balances = [k \in Keys |-> NoBal]
    /\ positions = [k \in Keys |-> NoPos]
    /\ orders = {}
    /\ trades = {}
    /\ hist = [aborted |-> [t \in Procs |-> "none"],
               startAvail |-> [t \in Procs |-> 0],
               startBase |-> [t \in Procs |-> 0],
               inits |-> [u \in Users |-> 0],
               orphaned |-> {},
               before |-> [t \in Procs |-> NoBefore],
               conc |-> [t \in Procs |-> {}],
               seq |-> [balances |-> [k \in Keys |-> NoBal],
                        positions |-> [k \in Keys |-> NoPos],
                        orders |-> {}, trades |-> {}],
               seqResult |-> [t \in Procs |-> "none"],
               sums |-> [k \in Keys |-> NoSums]]
    /\ nextOrderId = 1
    /\ nextTradeId = 1
    /\ pc = [t \in Procs |-> "idle"]
    /\ req = [t \in Procs |-> NoReq]
    /\ loc = [t \in Procs |-> NoLoc]
    /\ wr = [t \in Procs |-> NoWr]
    /\ held = [t \in Procs |-> {}]
    /\ result = [t \in Procs |-> "none"]
    /\ returned = [t \in Procs |-> NoRet]
    /\ calls = 0
    /\ HandlersIdle
    /\ users = {}
    /\ nextUserId = 1
    /\ login = [c \in Logins |-> NoLogin]

NextAuth ==
    \E c \in Logins :
        \/ Upsert(c)
        \/ FindFirst(c)
        \/ InitLock(c)
        \/ InitCheck(c)
        \/ InitCreate(c)
        \/ LoginFails(c)

SpecAuth == InitAuth /\ [][NextAuth]_vars

\* ------------------------------------------------------------------ setPrice
\* Decimal prices a caller may pass, written as price.toString() writes
\* them, and the server timestamps, written as toISOString() writes them.
PriceArgs == {"-1", "0", "10", "15", "Infinity", "-Infinity", "NaN"}
Timestamps == {"T1", "T2"}

\* orders.ts 361: price.lte(0); false for NaN and for Infinity.
lte0(price) == price \in {"-1", "0", "-Infinity"}

\* orders.ts 365: price.isFinite().
isFinite(price) == price \notin {"Infinity", "-Infinity", "NaN"}

\* A pipeline in place of the transaction, cut after its first command: the
\* price is set and the timestamp is not.
AfterExecPriceOnly(w) ==
    [redis EXCEPT
       ![priceKey(toUpperCase[setter[w].symbol])] =
          [value |-> setter[w].price, by |-> setter[w].call]]

\* orders.ts 369-373: the store after MULTI, SET price, SET timestamp, EXEC:
\* the server runs the two commands with no command of another client in
\* between.
AfterExec(w) ==
    [redis EXCEPT
       ![priceKey(toUpperCase[setter[w].symbol])] =
          [value |-> setter[w].price, by |-> setter[w].call],
       ![timestampKey(toUpperCase[setter[w].symbol])] =
          [value |-> setter[w].timestamp, by |-> setter[w].call]]

\* What setPrice and the readers of a price leave alone.
PriceFrame ==
    UNCHANGED <<balances, positions, orders, trades, nextOrderId, nextTradeId,
                pc, req, loc, wr, held, result, returned, hist, handlerVars,
                authVars>>

\* orders.ts 352-367: setPrice is called; a price that is not above 0 or not
\* finite is rejected before anything is sent to the store.
CallSetPrice(w) ==
    /\ setter[w].pc \in {"idle", "done"}
    /\ calls < MaxSets
    /\ \E symbol \in Symbols : \E price \in PriceArgs :
       \E timestamp \in Timestamps :
         setter' = [setter EXCEPT ![w] =
                      [pc |-> IF lte0(price) \/ ~isFinite(price)
                              THEN "done" ELSE "exec",
                       symbol |-> symbol, price |-> price,
                       timestamp |-> timestamp, call |-> calls + 1,
                       result |-> IF lte0(price) \/ ~isFinite(price)
                                  THEN "invalid" ELSE "none"]]
    /\ calls' = calls + 1
    /\ PriceFrame
    /\ UNCHANGED <<redis, snapshot>>

\* orders.ts 369-373: the transaction is executed.
Exec(w) ==
    /\ setter[w].pc = "exec"
    /\ redis' = AfterExec(w)
    /\ setter' = [setter EXCEPT ![w].pc = "done", ![w].result = "ok"]
    /\ PriceFrame
    /\ UNCHANGED <<calls, snapshot>>

\* orders.ts 369-373: the store cannot be reached, exec() rejects and
\* nothing was executed.
ExecFails(w) ==
    /\ setter[w].pc = "exec"
    /\ setter' = [setter EXCEPT ![w].pc = "done", ![w].result = "error"]
    /\ PriceFrame
    /\ UNCHANGED <<calls, redis, snapshot>>

\* A reader takes the price and the timestamp of a symbol as the store holds
\* them at one moment.
ReadPrice ==
    /\ \E s \in UpperSymbols :
         snapshot' = [price |-> redis[priceKey(s)],
                      timestamp |-> redis[timestampKey(s)]]
    /\ PriceFrame
    /\ UNCHANGED <<calls, redis, setter>>

NextPrice ==
    \/ \E w \in Setters :
          \/ CallSetPrice(w)
          \/ Exec(w)
          \/ ExecFails(w)
    \/ ReadPrice

\* The price workers and the readers, beside an empty ledger.
SpecPrice == InitAuth /\ [][NextPrice]_vars

\* ------------------------------------------------------------------- types
TypeOK ==
    /\ \A k \in Keys : balances[k].available \in Int /\ positions[k].size \in Int
    /\ \A t \in Procs : pc[t] \in InTx \cup {"idle", "done"}
    /\ calls \in 0..MaxCalls

\* The committed tables always equal the replay of the calls, each run alone.
DbEqualsReplay ==
    /\ hist.seq.balances = balances
    /\ hist.seq.positions = positions
    /\ hist.seq.orders = orders
    /\ hist.seq.trades = trades

\* ------------------------------------------------------------ properties
\* A step in which caller t ends its call with the transaction committed.
Commits(t) ==
    pc[t] = "commit" /\ pc'[t] = "done" /\ result'[t] = ORDER_STATUS.FILLED

QuoteKey(t) == <<req[t].user, req[t].quote>>
BaseKey(t) == <<req[t].user, req[t].base>>

\* The size of the committed position of a key; no row counts as size 0.
PositionSize(k) == IF positions[k].exists THEN positions[k].size ELSE 0

\* C1 (as the spec states it): in every reachable state every balance row has
\* available >= 0 and locked >= 0 and every position row has size >= 0.
\* The code lets a sell through on the base balance alone, so a position
\* smaller than the balance goes negative.
C1_NonNegative ==
    \A k \in Keys :
        /\ balances[k].available >= 0
        /\ balances[k].locked >= 0
        /\ positions[k].size >= 0

\* The total cost + fee of request r, in parts of 1/DEN quantum.
TotalNeeded(r) == r.size * r.price * (FEE_DIV + 1)

\* Callers a and b made concurrent buys of the same user and pair, b calling
\* while the transaction of a was open, each affordable alone on the quote
\* balance committed at that moment and not both together; both calls are
\* over and neither was ended from outside.
C2_Case(a, b) ==
    /\ a # b
    /\ pc[a] = "done" /\ pc[b] = "done"
    /\ a \in hist.conc[b]
    /\ req[a].side = "buy" /\ req[b].side = "buy"
    /\ req[a].user = req[b].user
    /\ req[a].base = req[b].base /\ req[a].quote = req[b].quote
    /\ TotalNeeded(req[a]) <= hist.startAvail[b] * DEN
    /\ TotalNeeded(req[b]) <= hist.startAvail[b] * DEN
    /\ TotalNeeded(req[a]) + TotalNeeded(req[b]) > hist.startAvail[b] * DEN
    /\ result[a] # "aborted" /\ result[b] # "aborted"

\* C2: of two concurrent buys of the same user on the same pair, each
\* affordable alone and not both together, exactly one commits, the other
\* fails with the insufficient-balance error, and the quote balance is not
\* negative afterwards.
C2_ExactlyOneBuyCommits ==
    \A a, b \in Procs :
        C2_Case(a, b) =>
            /\ \/ result[a] = "filled" /\ result[b] = "insufficient_balance"
               \/ result[b] = "filled" /\ result[a] = "insufficient_balance"
            /\ balances[QuoteKey(a)].available >= 0

C2_Witness ==
    \E a, b \in Procs :
        /\ C2_Case(a, b)
        /\ result[b] = "filled"
        /\ result[a] = "insufficient_balance"

\* C3: a transaction that fails or is ended from outside leaves the four
\* tables exactly as they were, and the tables change only in the one step
\* in which a transaction commits.
C3_Atomic ==
    [][ /\ \A t \in Procs :
             (pc[t] \in InTx /\ pc'[t] = "done" /\ result'[t] # ORDER_STATUS.FILLED)
                 => UNCHANGED <<balances, positions, orders, trades>>
        /\ (<<balances, positions, orders, trades>>' #
                <<balances, positions, orders, trades>>)
                 => \E t \in Procs : Commits(t) ]_vars

\* A transaction was ended after both balance updates and before the
\* position update, and the tables still equal the replay of the committed
\* calls.
C3_Witness ==
    \E t \in Procs :
        /\ pc[t] = "done"
        /\ result[t] = "aborted"
        /\ hist.aborted[t] = "balances"
        /\ hist.seq.balances = balances
        /\ hist.seq.orders = orders

\* C4 (as the spec states it): a sell of more than the committed position
\* size of the base asset never commits.  The code never reads the position
\* before it accepts a sell.
C4_NoOversell ==
    [][ \A t \in Procs :
          (Commits(t) /\ req[t].side = "sell")
              => req[t].size <= PositionSize(BaseKey(t)) ]_vars

\* C5 (as the spec states it): no transaction is ever on a cycle of
\* transactions each waiting for a row lock held by the next.  A call with
\* an asset as base and a call with the same asset as quote lock the two
\* rows in opposite orders.
C5_NoWaitCycle == \A t \in Procs : ~InWaitCycle(t)

\* C6: the committed tables always equal those produced by running the
\* finished calls one after another in the order they finished, and every
\* call that ended by its own decision ended as it does in that run.
C6_Serialized ==
    /\ DbEqualsReplay
    /\ \A t \in Procs :
          (pc[t] = "done" /\ result[t] \in OwnOutcomes)
              => hist.seqResult[t] = result[t]

\* Two overlapping buys of the same user and pair both committed.
C6_Witness ==
    \E a, b \in Procs :
        /\ a # b
        /\ pc[a] = "done" /\ pc[b] = "done"
        /\ a \in hist.conc[b]
        /\ req[a].user = req[b].user
        /\ req[a].base = req[b].base /\ req[a].quote = req[b].quote
        /\ result[a] = "filled" /\ result[b] = "filled"
        /\ hist.seqResult[a] = "filled" /\ hist.seqResult[b] = "filled"

\* C7: a buy is rejected with the insufficient-balance error exactly when
\* the committed quote balance is less than cost + fee, the rejection
\* changes no table, and a buy of exactly the whole balance leaves 0.
C7_BuyValidation ==
    [][ \A t \in Procs :
          LET avail == balances[QuoteKey(t)].available * DEN IN
          /\ (pc[t] \in InTx /\ pc'[t] = "done"
                /\ result'[t] = "insufficient_balance")
                => /\ req[t].side = "buy"
                   /\ avail < TotalNeeded(req[t])
                   /\ UNCHANGED <<balances, positions, orders, trades>>
          /\ (req[t].side = "buy" /\ pc[t] \in {"lockBase", "createBase"}
                /\ pc'[t] = "createOrder")
                => avail >= TotalNeeded(req[t])
          /\ (req[t].side = "buy" /\ Commits(t) /\ avail = TotalNeeded(req[t]))
                => balances'[QuoteKey(t)].available = 0 ]_vars

\* A buy of exactly the whole quote balance was filled.
C7_Witness ==
    \E t \in Procs :
        /\ pc[t] = "done"
        /\ result[t] = "filled"
        /\ req[t].side = "buy"
        /\ hist.startAvail[t] * DEN = TotalNeeded(req[t])
        /\ balances[QuoteKey(t)].available = 0

Abs(x) == IF x < 0 THEN -x ELSE x

\* The exact quote balance after request r on quote balance q, in parts of
\* 1/DEN quantum: q - (s*p + fee) for a buy, q + (s*p - fee) for a sell.
ExactQuoteAfter(r, q) ==
    IF r.side = "buy"
    THEN q * DEN - r.size * r.price * (FEE_DIV + 1)
    ELSE q * DEN + r.size * r.price * (FEE_DIV - 1)

\* What a commit does to the balances apart from the quote amount: base
\* available moves by the size, locked amounts and other rows stay.
BaseAndFrame(t) ==
    LET qk == QuoteKey(t)
        bk == BaseKey(t)
        b0 == IF balances[bk].exists THEN balances[bk].available ELSE 0
    IN  /\ balances'[bk].available =
              IF req[t].side = "buy" THEN b0 + req[t].size ELSE b0 - req[t].size
        /\ balances'[qk].locked = balances[qk].locked
        /\ balances'[bk].locked = balances[bk].locked
        /\ \A k \in Keys \ {qk, bk} : balances'[k] = balances[k]

C9_ExactAverage ==
    \A k \in Keys :
        (hist.sums[k].pure /\ positions[k].exists)
            => /\ positions[k].size = hist.sums[k].sumS
               /\ positions[k].avgEntryPrice * hist.sums[k].sumS = hist.sums[k].sumSP

\* C9 (amended): a position built by buys only has size = sum(s_i); every
\* buy stores (size*avg + s*p) / (size + s) rounded to the nearest value the
\* column holds, a first buy stores the execution price, and the average is
\* sum(s_i*p_i) / sum(s_i) as long as every stored average was exact.
C9_RoundedAverage ==
    /\ [](\A k \in Keys :
            (hist.sums[k].pure /\ positions[k].exists)
                => /\ positions[k].size = hist.sums[k].sumS
                   /\ hist.sums[k].exact =>
                         positions[k].avgEntryPrice * hist.sums[k].sumS
                             = hist.sums[k].sumSP)
    /\ [][ \A t \in Procs :
             (Commits(t) /\ req[t].side = "buy" /\ PositionSize(BaseKey(t)) >= 0)
                 => LET s0 == PositionSize(BaseKey(t))
                        a0 == positions[BaseKey(t)].avgEntryPrice
                        s1 == positions'[BaseKey(t)].size
                        a1 == positions'[BaseKey(t)].avgEntryPrice
                    IN  /\ s1 = s0 + req[t].size
                        /\ s0 = 0 => a1 = req[t].price
                        /\ s0 > 0 =>
                             2 * Abs(a1 * s1 - (s0 * a0 + req[t].size * req[t].price))
                                 <= s1 ]_vars

\* A position built by two or more buys holds an average that was rounded.
C9_Witness ==
    \E k \in Keys :
        /\ hist.sums[k].pure
        /\ hist.sums[k].n >= 2
        /\ ~hist.sums[k].exact
        /\ positions[k].size = hist.sums[k].sumS

\* C10: a filled sell that leaves size > 0 leaves avgEntryPrice as it was,
\* and one that brings size to 0 sets avgEntryPrice to 0.
C10_SellNeutral ==
    [][ \A t \in Procs :
          (Commits(t) /\ req[t].side = "sell")
              => /\ positions'[BaseKey(t)].size > 0 =>
                       positions'[BaseKey(t)].avgEntryPrice
                           = positions[BaseKey(t)].avgEntryPrice
                 /\ positions'[BaseKey(t)].size = 0 =>
                       positions'[BaseKey(t)].avgEntryPrice = 0 ]_vars

\* A sell of part of a position was filled at a price other than the
\* average, which the position still holds.
C10_Witness ==
    \E t \in Procs :
        /\ pc[t] = "done"
        /\ result[t] = "filled"
        /\ req[t].side = "sell"
        /\ positions[BaseKey(t)].size > 0
        /\ positions[BaseKey(t)].avgEntryPrice > 0
        /\ positions[BaseKey(t)].avgEntryPrice # req[t].price

\* C11 (as the spec states it): every position row with size 0 has
\* avgEntryPrice 0, and every position row with size > 0 has
\* avgEntryPrice > 0.
C11_ZeroBasisWhenFlat ==
    \A k \in Keys :
        positions[k].exists =>
            /\ positions[k].size = 0 => positions[k].avgEntryPrice = 0
            /\ positions[k].size > 0 => positions[k].avgEntryPrice > 0

\* C12: a buy of s at p on a position row of size 0 leaves the row with
\* size s and avgEntryPrice p whatever was traded before, and a position
\* row, once created, stays through every commit, a full close included.
C12_ReopenStartsFresh ==
    [][ \A t \in Procs :
          Commits(t) =>
              /\ (req[t].side = "buy" /\ positions[BaseKey(t)].exists
                    /\ positions[BaseKey(t)].size = 0)
                    => positions'[BaseKey(t)] =
                          [exists |-> TRUE, size |-> req[t].size,
                           avgEntryPrice |-> req[t].price]
              /\ (req[t].side = "sell" /\ positions[BaseKey(t)].exists
                    /\ positions[BaseKey(t)].size = req[t].size)
                    => /\ positions'[BaseKey(t)].exists
                       /\ positions'[BaseKey(t)].size = 0
              /\ \A k \in Keys : positions[k].exists => positions'[k].exists ]_vars

\* A buy was filled after an earlier buy at another price and a sell of the
\* same asset, and the position holds exactly this buy.
C12_Witness ==
    \E t \in Procs :
        /\ pc[t] = "done"
        /\ result[t] = "filled"
        /\ req[t].side = "buy"
        /\ positions[BaseKey(t)].size = req[t].size
        /\ positions[BaseKey(t)].avgEntryPrice = req[t].price
        /\ \E o1, o2 \in orders :
              /\ o1.userId = req[t].user /\ o2.userId = req[t].user
              /\ o1.baseAsset = req[t].base /\ o2.baseAsset = req[t].base
              /\ o1.side = "buy" /\ o2.side = "sell"
              /\ o1.id < o2.id /\ o2.id < returned[t].orderId
              /\ o1.priceAtOrderTime # req[t].price

BaseAvailable(t) ==
    IF balances[BaseKey(t)].exists THEN balances[BaseKey(t)].available ELSE 0

\* C14: every order row, committed or written and not yet committed, has
\* status 'filled', and a transaction that has written its order row holds a
\* request that passed the argument validation and the balance validation.
C14_OrdersAlwaysFilled ==
    /\ \A o \in orders : o.status = "filled"
    /\ \A t \in Procs :
          wr[t].order.dirty =>
              /\ wr[t].order.row.status = "filled"
              /\ pc[t] \in {"createTrade", "update1", "update2", "findPosition",
                            "createPosition", "updatePosition", "commit"}
              /\ req[t].side \in {"buy", "sell"}
              /\ req[t].base # req[t].quote
              /\ req[t].size >= MIN_POSITION_SIZE
              /\ req[t].price > 0
              /\ req[t].side = "buy" =>
                    balances[QuoteKey(t)].available * DEN >= TotalNeeded(req[t])
              /\ req[t].side = "sell" => BaseAvailable(t) >= req[t].size

\* An order row is written and not yet committed, next to a committed one.
C14_Witness ==
    \E t \in Procs :
        /\ pc[t] = "createTrade"
        /\ wr[t].order.dirty
        /\ wr[t].order.row.status = "filled"
        /\ \E o \in orders : o.id # 1 /\ o.status = "filled"

\* C15: a step in which a call ends in an error, before the transaction or
\* inside it, leaves the sets of order rows and trade rows as they were.
C15_ErrorLeavesNoRows ==
    [][ \A t \in Procs :
          (/\ pc'[t] = "done"
           /\ result'[t] \notin {"filled", "none"}
           /\ pc[t] \in InTx \/ calls' = calls + 1)
              => /\ orders' = orders
                 /\ trades' = trades ]_vars

\* A call failed at the position update, after it had written its order and
\* its trade: the sequences moved on and the tables hold no row of it.
C15_Witness ==
    \E t \in Procs :
        /\ pc[t] = "done"
        /\ result[t] = "storage_error"
        /\ req[t].priceFinite
        /\ nextOrderId > Cardinality(orders) + 1
        /\ nextTradeId > Cardinality(trades) + 1

\* C16: every trade row belongs to one order row of the same user, side,
\* price and size, every order row has exactly one trade row, ids are not
\* shared, and a commit adds exactly one order row and one trade row.
C16_OneTradePerOrder ==
    /\ [](/\ \A tr \in trades :
               \E o \in orders :
                   /\ o.id = tr.orderId
                   /\ o.userId = tr.userId
                   /\ o.side = tr.side
                   /\ o.priceAtOrderTime = tr.executedPrice
                   /\ o.requestedSize = tr.executedSize
          /\ \A o \in orders :
               Cardinality({tr \in trades : tr.orderId = o.id}) = 1
          /\ \A o1, o2 \in orders : o1.id = o2.id => o1 = o2
          /\ \A t1, t2 \in trades : t1.id = t2.id => t1 = t2)
    /\ [][ \A t \in Procs :
             Commits(t) =>
                 /\ Cardinality(orders') = Cardinality(orders) + 1
                 /\ Cardinality(trades') = Cardinality(trades) + 1
                 /\ orders \subseteq orders'
                 /\ trades \subseteq trades' ]_vars

\* A call committed after another was ended between its order and its
\* trade, so that order ids and trade ids no longer run in step.
C16_Witness ==
    /\ nextOrderId # nextTradeId
    /\ \E tr \in trades : tr.id # tr.orderId
    /\ Cardinality(orders) = Cardinality(trades)

BelowMinimum(r) == r.size * DEN + r.sizeSub < MIN_POSITION_SIZE * DEN

\* A step in which a call is made and no caller enters a transaction: the
\* call was rejected by the checks before the transaction.
RejectedAtCall ==
    /\ calls' = calls + 1
    /\ \A t \in Procs : pc'[t] \in InTx => pc[t] \in InTx

\* Nothing but the caller's own record of the call changes.
NothingTouched ==
    UNCHANGED <<balances, positions, orders, trades, nextOrderId, nextTradeId,
                wr, held>>

\* C18: a call with a size below MIN_POSITION_SIZE, or not > 0, ends with a
\* validation error, never enters a transaction and touches nothing; a size
\* of at least MIN_POSITION_SIZE is not a reason for a validation error.
C18_SizeFloor ==
    /\ [](\A t \in Procs :
            /\ pc[t] \in InTx => ~BelowMinimum(req[t])
            /\ (pc[t] = "done" /\ BelowMinimum(req[t]))
                  => result[t] = "validation_error"
            /\ (pc[t] = "done" /\ result[t] = "validation_error")
                  => \/ BelowMinimum(req[t])
                     \/ req[t].side \notin {"buy", "sell"}
                     \/ req[t].base = req[t].quote)
    /\ [][ RejectedAtCall => NothingTouched ]_vars

\* One call of 0.001 was rejected with a validation error and one call of
\* exactly MIN_POSITION_SIZE was filled.
C18_Witness ==
    \E a, b \in Procs :
        /\ pc[a] = "done" /\ pc[b] = "done"
        /\ result[a] = "validation_error"
        /\ req[a].size = 0 /\ req[a].sizeSub > 0
        /\ result[b] = "filled"
        /\ req[b].size = MIN_POSITION_SIZE
        /\ Cardinality(orders) = nextOrderId - 1

\* C19 (as the spec states it): a call whose execution price is not > 0 or
\* not finite never enters a transaction.  price.lte(0) is false for
\* Infinity, so such a call opens the transaction and locks rows.
C19_BadPriceFailsFast ==
    \A t \in Procs :
        pc[t] \in InTx => (req[t].priceFinite /\ req[t].price > 0)

\* C20: a call with baseAsset equal to quoteAsset, or with a side other than
\* buy and sell, ends with a validation error, never enters a transaction
\* and touches nothing; no transaction has one balance row as quote and base.
C20_PairAndSide ==
    /\ [](\A t \in Procs :
            /\ pc[t] \in InTx =>
                  /\ req[t].side \in {"buy", "sell"}
                  /\ QuoteKey(t) # BaseKey(t)
            /\ (pc[t] = "done"
                  /\ (req[t].base = req[t].quote
                        \/ req[t].side \notin {"buy", "sell"}))
                  => result[t] = "validation_error")
    /\ [][ RejectedAtCall => NothingTouched ]_vars

\* One call with the same asset as base and quote and one call with a side
\* that is neither buy nor sell were rejected, and the tables hold no row
\* of either.
C20_Witness ==
    \E a, b \in Procs :
        /\ pc[a] = "done" /\ pc[b] = "done"
        /\ req[a].base = req[a].quote
        /\ req[b].side = "hold"
        /\ result[a] = "validation_error"
        /\ result[b] = "validation_error"
        /\ Cardinality(orders) = nextOrderId - 1
        /\ \A t \in Procs : held[t] = {}

\* ------------------------------------------------------------------ C21
\* A key whose balance row initPortfolio does not create: its balance starts
\* at 0 with no position.
StartsEmpty(k) == \A q \in StartQuotes : ~FreshDb(q).balances[k].exists

\* The available balance of a key; no row counts as 0.
AvailableOf(k) == IF balances[k].exists THEN balances[k].available ELSE 0

\* A committed order of the user of key k paid, or was paid, in the asset of k.
UsedAsQuote(k) ==
    \E o \in orders : o.userId = k[1] /\ o.quoteAsset = k[2]

PublishFails(t) ==
    /\ hpc[t] \in {"placeOrder", "publishPortfolio"}
    /\ pc[t] = "done"
    /\ result[t] = ORDER_STATUS.FILLED
    /\ hpc'[t] = "idle"
    /\ response'[t].status # 201

\* C22: when publishing the order-filled or the portfolio-update event fails
\* after placeOrder committed, no committed table changes, and the order and
\* the trade of the call are still there.
C22_CommitSurvivesPublishFailure ==
    [][\A t \in Procs :
          PublishFails(t) =>
              /\ balances' = balances
              /\ positions' = positions
              /\ orders' = orders
              /\ trades' = trades
              /\ \E o \in orders' : o.id = returned[t].orderId
              /\ \E x \in trades' : x.orderId = returned[t].orderId]_vars

\* A handler answered 400 and its order is committed: the order-filled event
\* was published and publishing the portfolio event failed.
C22_Witness ==
    \E t \in Procs :
        /\ hpc[t] = "idle"
        /\ pc[t] = "done"
        /\ result[t] = ORDER_STATUS.FILLED
        /\ response[t].status = 400
        /\ \E o \in orders : o.id = returned[t].orderId
        /\ \E i \in 1..Len(events) :
              /\ events[i].type = "order_filled"
              /\ events[i].orderId = returned[t].orderId
        /\ ~\E i \in 1..Len(events) :
              /\ events[i].type = "portfolio_update"
              /\ events[i].userId = req[t].user

\* ------------------------------------------------------------------ C23
\* The available balance initPortfolio gives a key.
InitialAvailable(k) ==
    LET row == FreshDb(CHOOSE q \in StartQuotes : TRUE).balances[k]
    IN  IF row.exists THEN row.available ELSE 0

\* The order a trade row belongs to.
OrderOf(x) == CHOOSE o \in orders : o.id = x.orderId

\* The trade rows of a user that name asset a as base or as quote asset.
TradesOn(k) ==
    {x \in trades :
        /\ x.userId = k[1]
        /\ \E o \in orders : o.id = x.orderId
        /\ k[2] \in {OrderOf(x).baseAsset, OrderOf(x).quoteAsset}}

\* The signed delta of trade row x on asset a, computed from the row, in
\* hundredths of a column unit: buy: quote -(price*size + fee), base +size;
\* sell: base -size, quote +(price*size - fee).
SignedDelta(x, a) ==
    LET o == OrderOf(x)
        gross == x.executedPrice * x.executedSize
        quote == IF x.side = "buy" THEN 0 - (gross + x.fee * SCALE)
                                   ELSE gross - x.fee * SCALE
        base == IF x.side = "buy" THEN x.executedSize * SCALE
                                  ELSE 0 - x.executedSize * SCALE
    IN  IF a = o.baseAsset THEN base ELSE IF a = o.quoteAsset THEN quote ELSE 0

RECURSIVE SumDeltas(_, _)
SumDeltas(S, a) ==
    IF S = {} THEN 0
    ELSE LET x == CHOOSE y \in S : TRUE
         IN  SignedDelta(x, a) + SumDeltas(S \ {x}, a)

\* available minus (initial balance + sum of the signed deltas of the trade
\* rows), in hundredths of a column unit.
Underived(k) ==
    AvailableOf(k) * SCALE
      - (InitialAvailable(k) * SCALE + SumDeltas(TradesOn(k), k[2]))

\* Trade row x moved the quote balance by an amount the column holds: both
\* price*size and the fee have no more digits than the column.
ExactTrade(x) ==
    (x.executedPrice * x.executedSize) % (SCALE * FEE_DIV) = 0

C24_Case(a, b) ==
    /\ a # b
    /\ pc[a] = "done" /\ pc[b] = "done"
    /\ a \in hist.conc[b]
    /\ req[a].side = "sell" /\ req[b].side = "sell"
    /\ req[a].priceFinite /\ req[b].priceFinite
    /\ req[a].user = req[b].user
    /\ req[a].base = req[b].base /\ req[a].quote = req[b].quote
    /\ req[a].size <= hist.startBase[b]
    /\ req[b].size <= hist.startBase[b]
    /\ req[a].size + req[b].size > hist.startBase[b]
    /\ result[a] # "aborted" /\ result[b] # "aborted"

\* One of the two sells committed and the other was rejected for the missing
\* base balance.
C24_OneCommitted(a, b) ==
    \/ result[a] = "filled" /\ result[b] = "insufficient_to_sell"
    \/ result[b] = "filled" /\ result[a] = "insufficient_to_sell"

\* C24 (as the spec states it): of two concurrent sells of the same user on
\* the same pair, each covered alone and not both together, exactly one
\* commits, the other is rejected, and neither the base balance nor the
\* position size is negative afterwards.  The position is not part of the
\* sell validation, so the one sell that commits can take it below 0.
C24_ExactlyOneSellCommits ==
    \A a, b \in Procs :
        C24_Case(a, b) =>
            /\ C24_OneCommitted(a, b)
            /\ AvailableOf(BaseKey(a)) >= 0
            /\ PositionSize(BaseKey(a)) >= 0

\* The same without the position: exactly one of the two sells commits and
\* the base balance is not negative.
C24_BalanceSafe ==
    \A a, b \in Procs :
        C24_Case(a, b) =>
            /\ C24_OneCommitted(a, b)
            /\ AvailableOf(BaseKey(a)) >= 0

\* Two such sells have ended, one committed and one rejected.
C24_Reached == \E a, b \in Procs : C24_Case(a, b) /\ C24_OneCommitted(a, b)

\* ------------------------------------------------------------------ C25
\* The users rows of a wallet.
UsersOfWallet(w) == {u \in users : u.walletAddress = w}

C26_NoQuoteRowCreated ==
    [][ /\ \A t \in Procs :
             (pc[t] = "lockQuote" /\ ~balances[QuoteKey(t)].exists
                                 /\ pc'[t] # "lockQuote")
                 => /\ pc'[t] = "done"
                    /\ result'[t] \in {"no_quote_balance", "aborted"}
                    /\ UNCHANGED <<balances, positions, orders, trades>>
        /\ \A k \in Keys :
             (~balances[k].exists /\ balances'[k].exists)
                 => \E t \in Procs :
                       Commits(t) /\ k = BaseKey(t) /\ k # QuoteKey(t) ]_vars

\* A sell the base balance covers, and a buy, were both refused for the
\* missing quote row, and the row is still missing.
C26_Witness ==
    \E a, b \in Procs :
        /\ result[a] = "no_quote_balance" /\ result[b] = "no_quote_balance"
        /\ req[a].side = "sell" /\ req[b].side = "buy"
        /\ balances[BaseKey(a)].available >= req[a].size
        /\ ~balances[QuoteKey(a)].exists
        /\ ~balances[QuoteKey(b)].exists
        /\ orders = {} /\ trades = {}

\* ------------------------------------------------------------------ C27
\* The buy orders of the user of key k for the asset of k.
BuysOf(k) ==
    {o \in orders : o.userId = k[1] /\ o.baseAsset = k[2] /\ o.side = "buy"}

\* C27: a buy that commits for a user with neither a balance row nor a
\* position row of the base asset leaves the balance row {size, locked 0} and
\* the position row {size, execution price}, in the step that adds its order
\* and trade; and for an asset that starts without a balance row, in every
\* state either the balance row, the position row and a buy order are all
\* there or none is.
C27_FirstBuyCreatesBoth ==
    /\ [][\A t \in Procs :
             (Commits(t) /\ req[t].side = "buy"
                         /\ ~balances[BaseKey(t)].exists
                         /\ ~positions[BaseKey(t)].exists)
                 => /\ balances'[BaseKey(t)] =
                          [exists |-> TRUE, available |-> req[t].size, locked |-> 0]
                    /\ positions'[BaseKey(t)] =
                          [exists |-> TRUE, size |-> req[t].size,
                           avgEntryPrice |-> req[t].price]
                    /\ \E o \in orders' \ orders : o.id = returned'[t].orderId
                    /\ \E x \in trades' \ trades : x.orderId = returned'[t].orderId]_vars
    /\ [](\A k \in Keys :
             StartsEmpty(k) =>
                 /\ balances[k].exists <=> positions[k].exists
                 /\ balances[k].exists <=> BuysOf(k) # {})

\* User 2, who started with no SOL, has bought once: one order, the balance
\* row and the position row.
C27_Witness ==
    \E t \in Procs :
        /\ pc[t] = "done" /\ result[t] = ORDER_STATUS.FILLED
        /\ req[t].side = "buy" /\ req[t].user = 2
        /\ Cardinality(BuysOf(BaseKey(t))) = 1
        /\ Cardinality({o \in orders : o.userId = 2}) = 1
        /\ balances[BaseKey(t)] =
              [exists |-> TRUE, available |-> req[t].size, locked |-> 0]
        /\ positions[BaseKey(t)] =
              [exists |-> TRUE, size |-> req[t].size, avgEntryPrice |-> req[t].price]

\* ------------------------------------------------------------------ C28
\* Caller a bought and caller b then sold the same size of the same pair at
\* the same price for the same user, and the order of b is the next after
\* the order of a: nothing came between the two or after them.
C28_Case(a, b) ==
    /\ a # b
    /\ pc[a] = "done" /\ pc[b] = "done"
    /\ result[a] = ORDER_STATUS.FILLED /\ result[b] = ORDER_STATUS.FILLED
    /\ req[a].side = "buy" /\ req[b].side = "sell"
    /\ req[a].user = req[b].user
    /\ req[a].base = req[b].base /\ req[a].quote = req[b].quote
    /\ req[a].size = req[b].size /\ req[a].price = req[b].price
    /\ returned[b].orderId = returned[a].orderId + 1

\* A decimal in parts of 1/DEN of a column unit.
InParts(d) == d.w * DEN + d.r

\* What the quote balance lost over the round trip of a and b, less the two
\* fees returned, in parts of 1/DEN of a column unit.
C28_Off(a, b) ==
    (hist.before[a].quote - AvailableOf(QuoteKey(a))) * DEN
        - (InParts(returned[a].feesApplied) + InParts(returned[b].feesApplied))

\* Base balance and position size are what they were before the buy.
C28_BaseRestored(a) ==
    /\ AvailableOf(BaseKey(a)) = hist.before[a].base
    /\ PositionSize(BaseKey(a)) = hist.before[a].size

C29_LockedNeverChanges ==
    /\ [][\A k \in Keys :
             /\ balances[k].exists
                   => balances'[k].exists /\ balances'[k].locked = balances[k].locked
             /\ (~balances[k].exists /\ balances'[k].exists)
                   => balances'[k].locked = 0]_vars
    /\ [](\A k \in Keys : balances[k].locked = 0)

\* The first buy of a user has created a base row and changed both balances,
\* another call of the same user was rejected, and both rows have locked 0.
C29_Witness ==
    \E a, b \in Procs :
        /\ a # b
        /\ pc[a] = "done" /\ result[a] = ORDER_STATUS.FILLED
        /\ req[a].side = "buy"
        /\ Cardinality({o \in orders : o.userId = req[a].user}) = 1
        /\ pc[b] = "done" /\ result[b] = "insufficient_balance"
        /\ req[b].user = req[a].user
        /\ balances[BaseKey(a)].exists /\ balances[BaseKey(a)].available > 0
        /\ balances[BaseKey(a)].locked = 0
        /\ balances[QuoteKey(a)].locked = 0

\* ---------------------------------------------------------------------- C30
\* C30: orders and trades are append-only. At every step of placeOrder, of
\* its handler, of getOrder and of getUserOrders, each committed orders row
\* and each committed trades row is still there afterwards with all its
\* fields, and no second row with the id of a committed row appears: the two
\* tables only grow.
C30_AppendOnly ==
    [][/\ orders \subseteq orders'
       /\ trades \subseteq trades'
       /\ \A o \in orders : \A n \in orders' : n.id = o.id => n = o
       /\ \A x \in trades : \A n \in trades' : n.id = x.id => n = x]_vars

\* C30 witness: GET /orders answered with the orders a user had, and the
\* user has had another order committed since; the rows that were fetched
\* are all still in the table, and there are two trades.
C30_Witness ==
    \E u \in Users :
        /\ fetched.status = 200
        /\ fetched.orders # {}
        /\ \A o \in fetched.orders : o.userId = u
        /\ fetched.orders \subseteq orders
        /\ fetched.orders # getUserOrders(u)
        /\ Cardinality(trades) >= 2

\* ---------------------------------------------------------------------- C31
\* The rows of user u in the four tables.
RowsOf(u) ==
    [balances |-> [a \in Assets |-> balances[<<u, a>>]],
     positions |-> [a \in Assets |-> positions[<<u, a>>]],
     orders |-> {o \in orders : o.userId = u},
     trades |-> {x \in trades : x.userId = u}]

\* No other caller has a transaction of the user of t open.
AloneForUser(t) ==
    \A o \in Procs \ {t} : ~(pc[o] \in InTx /\ req[o].user = req[t].user)

\* C31 (waiting): a call that is about to take a row lock or to insert the
\* base row, while no other transaction of its own user is open, can take
\* its step at once, whatever the transactions of other users hold.
C31_NeverWaitsForOtherUser ==
    \A t \in Procs :
        AloneForUser(t) =>
            /\ pc[t] = "lockQuote" => ENABLED LockQuote(t)
            /\ pc[t] = "lockBase" => ENABLED LockBase(t)
            /\ pc[t] = "createBase" => ENABLED CreateBase(t)

\* C31 (rows): the rows of a user change only at the commit of a call of
\* that user, and what a call reads at its two locking reads is the row of
\* its own user.
C31_OwnRowsOnly ==
    [][/\ \A u \in Users :
            RowsOf(u)' # RowsOf(u)
               => \E t \in Procs : /\ pc[t] = "commit" /\ pc'[t] = "done"
                                    /\ req[t].user = u
       /\ \A t \in Procs :
            /\ (pc[t] = "lockQuote" /\ pc'[t] = "lockBase")
                  => loc'[t].quoteAvailable =
                        balances[<<req[t].user, req[t].quote>>].available
            /\ (pc[t] = "lockBase" /\ pc'[t] = "createOrder")
                  => loc'[t].baseAvailable =
                        balances[<<req[t].user, req[t].base>>].available]_vars

\* C31: placeOrder calls of different users do not interfere: a call never
\* waits for a lock held by a transaction of another user, and never reads
\* or changes a balance, position, order or trade row of another user.
C31_NoInterference ==
    /\ C31_OwnRowsOnly
    /\ []C31_NeverWaitsForOtherUser

\* C31 witness: two transactions of different users on the same pair are
\* open at once, each holds the row locks of both assets, and one of them
\* has reached its commit while the other has written its order.
C31_Witness ==
    \E a, b \in Procs :
        /\ a # b
        /\ req[a].user # req[b].user
        /\ req[b].quote = req[a].quote /\ req[b].base = req[a].base
        /\ pc[a] \in InTx /\ held[a] = {req[a].quote, req[a].base}
        /\ pc[b] = "commit" /\ held[b] = {req[b].quote, req[b].base}
        /\ wr[a].order.dirty

\* ---------------------------------------------------------------------- C32
\* The transaction of t has written something.
HasWritten(t) ==
    \/ wr[t].order.dirty \/ wr[t].trade.dirty \/ wr[t].pos.dirty
    \/ \E a \in Assets : wr[t].bal[a].dirty

\* C32 (states): a transaction holds the base lock only with the quote
\* lock, holds both once it is past its two locking reads, and has written
\* nothing with fewer than both.
C32_LocksBeforeWrites ==
    \A t \in Procs :
        pc[t] \in InTx =>
            /\ req[t].base \in held[t] => req[t].quote \in held[t]
            /\ pc[t] \in {"lockBase", "createBase"} => held[t] = {req[t].quote}
            /\ pc[t] = "lockQuote" => held[t] = {}
            /\ pc[t] \notin {"lockQuote", "lockBase", "createBase"}
                  => held[t] = {req[t].quote, req[t].base}
            /\ HasWritten(t) => held[t] = {req[t].quote, req[t].base}

\* C32 (steps): the locks are taken one at a time, the quote lock first and
\* the base lock second, and an order is rejected for an insufficient
\* balance only in the step that takes the base lock, with the quote lock
\* held.
C32_QuoteThenBase ==
    [][\A t \in Procs :
          /\ (pc'[t] \in InTx /\ held'[t] # held[t])
                => \/ held[t] = {} /\ held'[t] = {req'[t].quote}
                   \/ /\ held[t] = {req[t].quote}
                      /\ held'[t] = {req[t].quote, req[t].base}
          /\ (result'[t] # result[t]
               /\ result'[t] \in {"insufficient_balance", "insufficient_to_sell"})
                => /\ pc[t] \in {"lockBase", "createBase"}
                   /\ held[t] = {req[t].quote}
                   /\ ~BaseRowLocked(t) /\ ~BaseInsertBlocked(t)]_vars

\* C32: every placeOrder transaction, buy or sell, takes the lock of the
\* quote balance row first and that of the base balance row second; the
\* sufficiency check, the creation of order and trade and every balance and
\* position write come after both.
C32_LockOrder ==
    /\ C32_QuoteThenBase
    /\ []C32_LocksBeforeWrites

\* C32 witness: a buy and a sell are open at once; each has taken its quote
\* and its base lock, passed the sufficiency check and written its order and
\* its trade, and is about to write its balances.
C32_Witness ==
    \E a, b \in Procs :
        /\ req[a].side = "buy" /\ req[b].side = "sell"
        /\ pc[a] = "update1" /\ pc[b] = "update1"
        /\ held[a] = {req[a].quote, req[a].base}
        /\ held[b] = {req[b].quote, req[b].base}
        /\ wr[a].trade.dirty /\ wr[b].trade.dirty

\* ---------------------------------------------------------------------- C33
\* The handler of t has answered the call whose rejection result[t] names
\* with one of its error codes.
AnsweredRejection(t) ==
    /\ hpc[t] = "idle"
    /\ pc[t] = "done"
    /\ result[t] \in {"insufficient_balance", "insufficient_to_sell"}
    /\ response[t].status = 400
    /\ response[t].code # ""

\* C33: the caller can tell the rejection kinds apart: the response to a buy
\* rejected for its quote balance carries the code of InsufficientBalance,
\* and the response to a sell rejected for its base balance carries the code
\* of InsufficientPosition, never that of InsufficientBalance.
C33_KindsToldApart ==
    \A t \in Procs :
        AnsweredRejection(t) =>
            /\ result[t] = "insufficient_balance"
                  => response[t].code = "INSUFFICIENT_BALANCE"
            /\ result[t] = "insufficient_to_sell"
                  => /\ response[t].code = "INSUFFICIENT_POSITION"
                     /\ response[t].code # "INSUFFICIENT_BALANCE"

\* ---------------------------------------------------------------------- C34
\* The call of t has committed its order.
CommittedCall(t) ==
    /\ pc[t] = "done"
    /\ result[t] = ORDER_STATUS.FILLED
    /\ \E o \in orders : o.id = returned[t].orderId /\ o.userId = req[t].user

\* C34 (steps): an event is published only by the handler of a call that has
\* committed, the order-filled event names the committed order, the
\* portfolio event carries the snapshot the handler read, and the snapshot is
\* read after the commit and is the committed rows of that moment.
C34_PublishedAfterCommit ==
    [][/\ events' # events
          => /\ Len(events') = Len(events) + 1
             /\ SubSeq(events', 1, Len(events)) = events
             /\ LET e == events'[Len(events')] IN
                \E t \in Procs :
                    /\ CommittedCall(t)
                    /\ e.userId = req[t].user
                    /\ \/ /\ e.type = "order_filled"
                          /\ hpc[t] = "placeOrder"
                          /\ e.orderId = returned[t].orderId
                       \/ /\ e.type = "portfolio_update"
                          /\ hpc[t] = "publishPortfolio"
                          /\ portfolio[t].read
                          /\ e.balances = portfolio[t].balances
                          /\ e.positions = portfolio[t].positions
       /\ \A t \in Procs :
            (portfolio'[t].read /\ ~portfolio[t].read)
               => /\ CommittedCall(t)
                  /\ portfolio'[t].balances =
                        [a \in Assets |-> balances[<<req[t].user, a>>]]
                  /\ portfolio'[t].positions =
                        [a \in Assets |-> positions[<<req[t].user, a>>]]]_vars

\* C34 (states): every order-filled event names a committed order of its
\* user, no order has two of them, and a handler whose call did not commit
\* holds no snapshot.
C34_EventsOfCommittedOrders ==
    /\ \A i \in 1..Len(events) :
          events[i].type = "order_filled"
             => /\ \E o \in orders : /\ o.id = events[i].orderId
                                      /\ o.userId = events[i].userId
                /\ \A j \in 1..Len(events) :
                      (events[j].type = "order_filled"
                       /\ events[j].orderId = events[i].orderId) => j = i
    /\ \A t \in Procs : portfolio[t].read => CommittedCall(t)

\* C34: the order-filled event and the portfolio event of an order are
\* published only after the transaction of that order has committed, the
\* snapshot is read after the commit, and nothing is published for a call
\* that failed.
C34_EventsAfterCommit ==
    /\ C34_PublishedAfterCommit
    /\ []C34_EventsOfCommittedOrders

\* C34 witness: one request was answered 201 after both of its events were
\* published, the order-filled event before the portfolio event, and the
\* other caller's request was rejected by placeOrder and answered 400;
\* there are exactly the two events.
C34_Witness ==
    \E a, b \in Procs :
        /\ a # b
        /\ hpc[a] = "idle" /\ response[a].status = 201
        /\ hpc[b] = "idle" /\ response[b].status = 400
        /\ pc[b] = "done" /\ result[b] \in {"insufficient_balance",
                                             "insufficient_to_sell"}
        /\ Len(events) = 2
        /\ events[1].type = "order_filled"
        /\ events[1].orderId = response[a].orderId
        /\ events[2].type = "portfolio_update"
        /\ events[2].userId = req[a].user

\* ---------------------------------------------------------------------- C35
\* C35: POST /orders answers 201 if and only if the order was committed:
\* the handler answers 201 only for a call that committed, with the id of
\* its order, and when it answers a request it passed on to placeOrder with
\* an error status, the call of that request has committed nothing; a
\* request answered before placeOrder is called leaves the tables as they
\* were.
C35_SuccessIffCommitted ==
    [][\A t \in Procs :
          response'[t] # response[t] =>
             /\ response'[t].status = 201
                   => /\ CommittedCall(t)
                      /\ response'[t].orderId = returned[t].orderId
             /\ (response'[t].status \notin {0, 201} /\ hpc[t] # "idle")
                   => ~CommittedCall(t)
             /\ (response'[t].status \notin {0, 201} /\ hpc[t] = "idle")
                   => /\ orders' = orders /\ trades' = trades
                      /\ balances' = balances /\ positions' = positions]_vars

\* ---------------------------------------------------------------------- C36
\* The call of t is rejected in this step for an insufficient balance, after
\* it found no base row and created one in its transaction.
RejectedAfterCreate(t) ==
    /\ pc[t] = "createBase"
    /\ pc'[t] = "done"
    /\ result'[t] \in {"insufficient_balance", "insufficient_to_sell"}

\* C36: a rejected order leaves no lazily created row: when a call creates
\* the missing base balance row in its transaction and is then rejected (a
\* sell with nothing to sell, a buy with too little of the quote asset), the
\* user has no balance row and no position row of the base asset afterwards,
\* and no table has changed.
C36_NoRowLeftBehind ==
    [][\A t \in Procs :
          RejectedAfterCreate(t) =>
             /\ ~balances'[<<req[t].user, req[t].base>>].exists
             /\ ~positions'[<<req[t].user, req[t].base>>].exists
             /\ balances' = balances /\ positions' = positions
             /\ orders' = orders /\ trades' = trades
             /\ wr'[t] = NoWr /\ held'[t] = {}]_vars

\* C36 witness: a sell with nothing to sell and a buy with too little of the
\* quote asset have both been rejected, each for a base asset of which the
\* user had no balance row, and the user still has none.
C36_Witness ==
    \E a, b \in Procs :
        /\ a # b
        /\ pc[a] = "done" /\ result[a] = "insufficient_to_sell"
        /\ req[a].side = "sell"
        /\ ~balances[<<req[a].user, req[a].base>>].exists
        /\ ~positions[<<req[a].user, req[a].base>>].exists
        /\ pc[b] = "done" /\ result[b] = "insufficient_balance"
        /\ req[b].side = "buy"
        /\ ~balances[<<req[b].user, req[b].base>>].exists
        /\ ~positions[<<req[b].user, req[b].base>>].exists

\* ---------------------------------------------------------------------- C37
\* createOrGetUser has returned a user to caller c.
ReturnedUser(c) == login[c].pc = "done" /\ login[c].result = "ok"

\* User u has a balance row.
HasPortfolio(u) == \E a \in Assets : balances[<<u, a>>].exists

\* C37: whenever createOrGetUser returns a user, that user has at least one
\* balance row, also when an earlier call for the wallet created the user
\* and failed before the portfolio was there; a call that ends while its
\* user has no balance row ends with an error, and the user it returns is
\* the users row of its wallet.
C37_ReturnedUserHasPortfolio ==
    /\ [][\A c \in Logins :
            (login'[c].pc = "done" /\ login[c].pc # "done")
               => IF \E a \in Assets : balances'[<<login[c].user, a>>].exists
                  THEN login'[c].result \in {"ok", "error", "unique_violation"}
                  ELSE login'[c].result = "error"]_vars
    /\ [](\A c \in Logins :
            ReturnedUser(c)
               => /\ HasPortfolio(login[c].user)
                  /\ \E u \in users : /\ u.id = login[c].user
                                        /\ u.walletAddress = login[c].walletAddress)

\* C37 witness: a call for a wallet failed while its user had no balance
\* row, and a later call for the same wallet has returned that user with a
\* portfolio that was initialised once.
C37_Witness ==
    \E a, b \in Logins :
        /\ a # b
        /\ login[a].pc = "done" /\ login[a].result = "error"
        /\ login[a].user \in hist.orphaned
        /\ ReturnedUser(b)
        /\ login[b].walletAddress = login[a].walletAddress
        /\ login[b].user = login[a].user
        /\ HasPortfolio(login[b].user)
        /\ hist.inits[login[b].user] = 1

\* ---------------------------------------------------------------------- C38
\* The value v was written by a setPrice call with a price above 0 and
\* finite, or the key was never set.
GoodPair(p, ts) ==
    /\ p.by = ts.by
    /\ p.by = 0 => p = NoValue /\ ts = NoValue
    /\ p.by # 0 => /\ p.value \in {"10", "15"}
                   /\ ts.value \in Timestamps

\* C38 (states): the price and the timestamp of a symbol, in the store and
\* as a reader found them, were written by one and the same setPrice call,
\* and the price is above 0 and finite.
C38_PairOfOneCall ==
    /\ \A s \in UpperSymbols :
          GoodPair(redis[priceKey(s)], redis[timestampKey(s)])
    /\ GoodPair(snapshot.price, snapshot.timestamp)
    /\ \A w \in Setters :
          (setter[w].pc = "exec" \/ setter[w].result = "ok")
             => setter[w].price \in {"10", "15"}

\* C38 (steps): a setPrice call that is rejected or fails leaves the store
\* as it was, and a call that succeeds sets the two keys of its symbol, in
\* its upper-case form, to its own price and timestamp and no other key.
C38_WrittenTogether ==
    [][\A w \in Setters :
          setter'[w] # setter[w] =>
             IF setter'[w].result = "ok"
             THEN LET s == toUpperCase[setter[w].symbol] IN
                  /\ redis'[priceKey(s)].value = setter[w].price
                  /\ redis'[timestampKey(s)].value = setter[w].timestamp
                  /\ redis'[priceKey(s)].by = setter[w].call
                  /\ redis'[timestampKey(s)].by = setter[w].call
                  /\ \A k \in RedisKeys \ {priceKey(s), timestampKey(s)} :
                        redis'[k] = redis[k]
             ELSE redis' = redis]_vars

====
